---- MODULE Spec2Model ----
(***************************************************************************)
(* Protected-path synchronisation engine of assignment-pull-request.       *)
(*                                                                         *)
(* Every hook firing is one operating-system process.  A process runs      *)
(* main (the githook entry point), which may call Processor.ProtectPaths;  *)
(* ProtectPaths takes the file lock <gitdir>/protect-paths.lock, matches   *)
(* the protected paths, checks for unmerged entries, builds a snapshot of  *)
(* HEAD in a staging directory, mirrors it into the working tree, applies  *)
(* skip-worktree flags and releases the lock.                              *)
(*                                                                         *)
(* Each system call of acquireLock is one step, so that the interleavings  *)
(* of concurrent acquirers are those the operating system allows.          *)
(***************************************************************************)
EXTENDS Integers, Sequences, FiniteSets, TLC

\* ------------------------------------------------------------------------
\* Bounds
\* ------------------------------------------------------------------------

\* Number of hook processes running concurrently on one repository.
NumProcs == 2

\* Number of 100 ms sleeps that fit before the acquireLock deadline
\* (30 s / 100 ms in the program; scaled down).
MaxSleeps == 2

\* Longest suffix considered after the staging prefix in a source directory
\* name (os.MkdirTemp appends the decimal digits of a 32-bit number: at most
\* 10 characters).
MaxSuffixLen == 10

\* ------------------------------------------------------------------------
\* Process ids
\* ------------------------------------------------------------------------

Procs == 1..NumProcs

\* The process id recorded in a lock file left behind by a crashed run.
DeadPid == NumProcs + 1

\* A live process outside the model that holds the lock and keeps it.
LivePid == NumProcs + 2

\* A live process of another user (a hook started under sudo, say) that
\* holds the lock and keeps it: kill(pid, 0) from here fails with EPERM.
OtherUserPid == NumProcs + 3

\* Lock file content that strconv.Atoi rejects.
Garbled == -1

\* The process that runs main in the single-hook specification.
HookProc == CHOOSE p \in Procs : \A q \in Procs : p <= q

VARIABLES
    pc,          \* pc[p]: position of process p in main / ProtectPaths / acquireLock
    lockFile,    \* <gitdir>/protect-paths.lock: [exists, creator, content]
    readPid,     \* readPid[p]: pid that readLockPID returned to p (0: none)
    sleeps,      \* sleeps[p]: number of time.Sleep calls p made in acquireLock
    holds,       \* holds[p]: acquireLock returned a Lock to p and p has not yet called Release
    reclaimed,   \* a process deleted a lock file as stale
    protPat,     \* protPat[p]: the pattern set handed to ProtectPaths ("unset" until read)
    matched,     \* matched[p]: outcome of findProtectedPaths
    unmerged,    \* unmerged[p]: outcome of git ls-files -u
    stage,       \* stage[p]: the staging directory created by p exists
    trace,       \* trace[p]: orchestrator steps of p that have been called, in order
    failedStep,  \* failedStep[p]: the step whose error ProtectPaths returns ("none")
    result,      \* result[p]: return value of ProtectPaths ("pending", "nil", "error")
    flagged,     \* flagged[p]: p set the skip-worktree bits
    exitCode,    \* exitCode[p]: exit status of the process (-1: still running)
    logged,      \* logged[p]: the process wrote an error line to the log
    binary,      \* which main the hook process runs
    hook,        \* the git hook that fired
    argc,        \* len(os.Args) of the hook process
    flag,        \* os.Args[3] of the hook process (when argc >= 4)
    env,         \* what the hook process finds: working directory, workflow files
    sparseRan,   \* the sparse-checkout action was invoked
    protectRan,  \* the protection action was invoked
    sparseErr,   \* the sparse-checkout action returned an error
    gpc,         \* position of the gateway call (caller side, helper side)
    caller,      \* who invokes the privileged helper
    helper,      \* the gateway the helper binary runs
    src,         \* the source argument: canonical path and what is found there
    dst,         \* the destination argument: canonical path and what is found there
    argSlash,    \* the source argument handed to the helper ends with "/"
    callerSrcOk, \* result of the caller's validateSourcePath
    callerDstOk, \* result of the caller's validateDestinationPath
    srcOk,       \* result of the helper's validateSourcePath
    dstOk,       \* result of the helper's validateDestinationPath
    chowned,     \* ownership in the source directory was changed
    chmodded,    \* permission bits in the source directory were changed
    synced,      \* rsync ran on the destination ("none", "partial", "full")
    gresult,     \* result of the gateway call ("pending", "ok", or the error)
    invoked,     \* the caller started the helper binary
    spc,         \* position of the protection run on the repository contents
    runNo,       \* 1: first run of the sequence, 2: the run that follows it
    head,        \* head[f]: content of f in the HEAD commit
    index,       \* index[f]: entry of f in .git/index: [content, skip]
    work,        \* work[f]: f in the working tree: [content, owner, mode]
    tmpExists,   \* the file created by mktemp for the temporary index exists
    tmpIndex,    \* tmpIndex[f]: content of f in the temporary index
    stageDir,    \* "none", or the user owning the staging directory
    stageFiles,  \* stageFiles[f]: f below the staging directory
    matchedDir,  \* findProtectedPaths matched the protected directory
    sres,        \* result of the run ("pending", "nil", or the failing step)
    after1,      \* the working tree as the first run left it
    extractedFrom, \* the index file read by git checkout-index ("none" before)
    sudoUser,    \* value of SUDO_USER ("": not set)
    currentUser, \* the user the hook process runs as
    indexLock,   \* .git/index.lock exists: another git process is writing the index
    rsyncBinary, \* githook-rsync is installed where findGithookRsyncBinary looks
    headBorn,    \* HEAD names a commit (FALSE on a branch without commits)
    ranAs,       \* the user runCommandAsUser ran its command as ("none": not run)
    fpc,         \* position of a FindWithOptions call
    tree,        \* tree[e]: kind of the entry e below the walk root ("none", "file", "dir")
    rootName,    \* base name of the walk root
    opts,        \* FindOptions: [files, dirs]
    pats,        \* the compiled patterns, in order
    todo,        \* entries filepath.Walk still has to visit, next first
    matchedPaths, \* matchedPaths of FindWithOptions
    patterns,    \* regex.Processor.patterns
    compiled,    \* regex.Processor.compiled
    dirty,       \* regex.Processor.dirty
    cret,        \* what the call just made returned, if it was Compiled(): [err, list]
    pret,        \* what the call just made returned, if it was paths.NewProcessor
    offered,     \* every pattern handed to the loop of Add so far, in order
    calls,       \* number of calls made on the regex.Processor
    srcTree,     \* srcTree[e]: entry e below the staging directory given to the mirror
    dstTree,     \* dstTree[e]: entry e below the destination of the mirror
    warned,      \* mirrorToWorkingTree printed a warning for a path it could not sync
    uenv,        \* what user resolution reads: os/user, USER, LOGNAME, whoami, SUDO_USER
    ucall,       \* the function of package userutil that was called
    uret         \* what it returned: a user name and an error

lockVars == <<lockFile, readPid, sleeps, holds, reclaimed>>
runVars  == <<protPat, matched, unmerged, stage, trace, failedStep, result, flagged>>
hookVars == <<binary, hook, argc, flag, env, sparseRan, protectRan, sparseErr>>
procVars == <<pc, lockVars, runVars, exitCode, logged, hookVars>>
gateVars == <<gpc, caller, helper, src, dst, argSlash, callerSrcOk, callerDstOk,
              srcOk, dstOk, chowned, chmodded, synced, gresult, invoked>>
repoVars == <<spc, runNo, head, index, work, tmpExists, tmpIndex, stageDir, stageFiles,
              matchedDir, sres, after1, extractedFrom, sudoUser, currentUser, indexLock,
              rsyncBinary, headBorn, ranAs>>
findVars == <<fpc, tree, rootName, opts, pats, todo, matchedPaths>>
patVars  == <<patterns, compiled, dirty, cret, pret, offered, calls>>
userVars == <<uenv, ucall, uret>>
libVars  == <<findVars, patVars, userVars>>
mirVars  == <<srcTree, dstTree, warned>>
nonProcVars == <<gateVars, repoVars, libVars, mirVars>>
nonGateTreeVars == <<procVars, repoVars, libVars>>
nonGateVars == <<nonGateTreeVars, mirVars>>
nonRepoVars == <<procVars, gateVars, libVars, mirVars>>
nonFindVars == <<procVars, gateVars, repoVars, patVars, userVars, mirVars>>
nonPatVars  == <<procVars, gateVars, repoVars, findVars, userVars, mirVars>>
nonUserVars == <<procVars, gateVars, repoVars, findVars, patVars, mirVars>>
vars     == <<procVars, gateVars, repoVars, libVars, mirVars>>

\* ------------------------------------------------------------------------
\* The lock file
\* ------------------------------------------------------------------------

\* No file at the lock path.
NoFile == [exists |-> FALSE, creator |-> 0, content |-> 0]

\* A file at the lock path, created by process c; content 0 is the empty
\* file between the exclusive create and the write of the pid.
File(c, n) == [exists |-> TRUE, creator |-> c, content |-> n]

\* A lock file left by a run that died without releasing.
StaleFile == File(DeadPid, DeadPid)

\* A lock file of a live holder outside the model.
ForeignFile == File(LivePid, LivePid)

\* A lock file of a live holder that runs as another user.
OtherUserFile == File(OtherUserPid, OtherUserPid)

\* A lock file of a live holder whose content is not a decimal number
\* followed by one more byte.
GarbledFile == File(LivePid, Garbled)

\* The process exists.
ProcessExists(pid) ==
    \/ pid \in {LivePid, OtherUserPid}
    \/ pid \in Procs /\ pc[pid] \notin {"exited", "panicked"}

\* process.Signal(syscall.Signal(0)): nil when the process exists and may
\* be signalled, ESRCH when it does not exist, EPERM when it exists and
\* belongs to another user.
Signal0(pid) ==
    IF ~ProcessExists(pid) THEN "esrch"
    ELSE IF pid = OtherUserPid THEN "eperm"
    ELSE "nil"

\* Variant: a probe that never reports a process as gone.
isProcessRunning_AlwaysAlive(pid) == TRUE

\* isProcessRunning: FindProcess always succeeds on Unix; the result is
\* err == nil of Signal(0).
isProcessRunning(pid) == Signal0(pid) = "nil"

\* Variant: a Remove that leaves the file in place.
RemoveLockPath_NoOp == lockFile

\* os.Remove(lockFile): removes whatever file is at the path.
RemoveLockPath == NoFile

Append1(f, p, x) == [f EXCEPT ![p] = Append(@, x)]

\* Variant: the error of acquireLock is recorded but the run goes on.
ReturnNoLock_Proceed(p, s) ==
    /\ pc' = [pc EXCEPT ![p] = "locked"]
    /\ failedStep' = [failedStep EXCEPT ![p] = s]
    /\ result' = [result EXCEPT ![p] = "error"]

\* ProtectPaths returns err from step s without having registered a defer:
\* the process goes back to its caller.
ReturnNoLock(p, s) ==
    /\ pc' = [pc EXCEPT ![p] = "returned"]
    /\ failedStep' = [failedStep EXCEPT ![p] = s]
    /\ result' = [result EXCEPT ![p] = "error"]

\* ------------------------------------------------------------------------
\* acquireLock
\* ------------------------------------------------------------------------

\* gitOps.FindGitDir(): git rev-parse --git-dir and the checks on it.
AcquireLock_FindGitDir(p) ==
    /\ pc[p] = "acq_gitdir"
    /\ \E ok \in BOOLEAN :
         IF ok
         THEN /\ pc' = [pc EXCEPT ![p] = "acq_open"]
              /\ UNCHANGED <<trace, failedStep, result>>
         ELSE /\ ReturnNoLock(p, "lock_gitdir")
              /\ trace' = Append1(trace, p, "lock")
    /\ UNCHANGED <<lockVars, protPat, matched, unmerged, stage, flagged,
                   exitCode, logged, hookVars>>
    /\ UNCHANGED nonProcVars

\* Loop condition time.Now().Before(deadline).
BeforeDeadline(p) == sleeps[p] < MaxSleeps

\* Loop head and os.OpenFile(lockFile, O_CREATE|O_WRONLY|O_EXCL).
AcquireLock_Open(p) ==
    /\ pc[p] = "acq_open"
    /\ IF ~BeforeDeadline(p)
       THEN /\ ReturnNoLock(p, "lock_timeout")
            /\ trace' = Append1(trace, p, "lock")
            /\ UNCHANGED lockFile
       ELSE /\ IF lockFile.exists
               THEN /\ pc' = [pc EXCEPT ![p] = "acq_read"]
                    /\ UNCHANGED lockFile
               ELSE /\ pc' = [pc EXCEPT ![p] = "acq_write"]
                    /\ lockFile' = File(p, 0)
            /\ UNCHANGED <<trace, failedStep, result>>
    /\ UNCHANGED <<readPid, sleeps, holds, reclaimed, protPat, matched, unmerged, stage,
                   flagged, exitCode, logged, hookVars>>
    /\ UNCHANGED nonProcVars

\* file.WriteString(pid): the write goes to the file this process created,
\* which is visible at the lock path only while nobody unlinked it.
WritePid(p) ==
    IF lockFile.exists /\ lockFile.creator = p THEN File(p, p) ELSE lockFile

AcquireLock_WritePid(p) ==
    /\ pc[p] = "acq_write"
    /\ \E ok \in BOOLEAN :
         IF ok
         THEN /\ lockFile' = WritePid(p)
              /\ pc' = [pc EXCEPT ![p] = "locked"]
              /\ holds' = [holds EXCEPT ![p] = TRUE]
              /\ trace' = Append1(trace, p, "lock")
         ELSE /\ pc' = [pc EXCEPT ![p] = "acq_write_failed"]
              /\ UNCHANGED <<lockFile, holds, trace>>
    /\ UNCHANGED <<readPid, sleeps, reclaimed, protPat, matched, unmerged, stage,
                   failedStep, result, flagged, exitCode, logged, hookVars>>
    /\ UNCHANGED nonProcVars

\* The write failed: file.Close(), os.Remove(lockFile), return the error.
AcquireLock_WriteFailed(p) ==
    /\ pc[p] = "acq_write_failed"
    /\ lockFile' = RemoveLockPath
    /\ ReturnNoLock(p, "lock_write")
    /\ trace' = Append1(trace, p, "lock")
    /\ UNCHANGED <<readPid, sleeps, holds, reclaimed, protPat, matched, unmerged, stage,
                   flagged, exitCode, logged, hookVars>>
    /\ UNCHANGED nonProcVars

\* readLockPID: os.ReadFile, then data[:len(data)-1] and strconv.Atoi.
\* Outcomes: "enoent" (the file vanished), "panic" (empty file: the slice
\* bound is -1), "badpid" (Atoi fails), or the pid read.
readLockPID ==
    IF ~lockFile.exists THEN "enoent"
    ELSE IF lockFile.content = 0 THEN "panic"
    ELSE IF lockFile.content = Garbled THEN "badpid"
    ELSE "pid"

AcquireLock_ReadPid(p) ==
    /\ pc[p] = "acq_read"
    /\ CASE readLockPID \in {"enoent", "badpid"} ->
              /\ pc' = [pc EXCEPT ![p] = "acq_sleep"]
              /\ UNCHANGED <<readPid, exitCode>>
         [] readLockPID = "panic" ->
              /\ pc' = [pc EXCEPT ![p] = "panicked"]
              /\ exitCode' = [exitCode EXCEPT ![p] = 2]
              /\ UNCHANGED readPid
         [] readLockPID = "pid" ->
              /\ pc' = [pc EXCEPT ![p] = "acq_probe"]
              /\ readPid' = [readPid EXCEPT ![p] = lockFile.content]
              /\ UNCHANGED exitCode
    /\ UNCHANGED <<lockFile, sleeps, holds, reclaimed, runVars, logged, hookVars>>
    /\ UNCHANGED nonProcVars

\* if !isProcessRunning(pid): the lock is stale.
AcquireLock_Probe(p) ==
    /\ pc[p] = "acq_probe"
    /\ pc' = [pc EXCEPT ![p] =
                 IF isProcessRunning(readPid[p]) THEN "acq_sleep" ELSE "acq_remove"]
    /\ readPid' = [readPid EXCEPT ![p] = 0]
    /\ UNCHANGED <<lockFile, sleeps, holds, reclaimed, runVars, exitCode, logged, hookVars>>
    /\ UNCHANGED nonProcVars

\* os.Remove(lockFile); continue.
AcquireLock_RemoveStale(p) ==
    /\ pc[p] = "acq_remove"
    /\ lockFile' = RemoveLockPath
    /\ reclaimed' = TRUE
    /\ pc' = [pc EXCEPT ![p] = "acq_open"]
    /\ UNCHANGED <<readPid, sleeps, holds, runVars, exitCode, logged, hookVars>>
    /\ UNCHANGED nonProcVars

\* Variant: a sleep during which no time passes.
Elapsed_NoTime(n) == n

\* The clock of the deadline, in sleeps, after one more time.Sleep.
Elapsed(n) == n + 1

\* time.Sleep(100 * time.Millisecond).
AcquireLock_Sleep(p) ==
    /\ pc[p] = "acq_sleep"
    /\ sleeps' = [sleeps EXCEPT ![p] = Elapsed(@)]
    /\ pc' = [pc EXCEPT ![p] = "acq_open"]
    /\ UNCHANGED <<lockFile, readPid, holds, reclaimed, runVars, exitCode, logged, hookVars>>
    /\ UNCHANGED nonProcVars

acquireLock(p) ==
    \/ AcquireLock_FindGitDir(p)
    \/ AcquireLock_Open(p)
    \/ AcquireLock_WritePid(p)
    \/ AcquireLock_WriteFailed(p)
    \/ AcquireLock_ReadPid(p)
    \/ AcquireLock_Probe(p)
    \/ AcquireLock_RemoveStale(p)
    \/ AcquireLock_Sleep(p)

\* ------------------------------------------------------------------------
\* Processor.ProtectPaths
\* ------------------------------------------------------------------------

PatKinds == {"none", "invalid", "valid"}
\* main calls ProtectPaths only with a non-empty pattern list.
RunPatKinds == {"invalid", "valid"}
WalkOutcomes == {"walkerr", "nomatch", "match"}

\* The pattern set is an argument of ProtectPaths; it is read for the first
\* time by findProtectedPaths.  A hook process got it from the workflow
\* parser, a direct caller may pass any regex.Processor.
PatternArg(p) == IF protPat[p] = "unset" THEN RunPatKinds ELSE {protPat[p]}

\* paths.NewProcessor: no pattern or an uncompilable pattern is an error.
NewProcessor(pat) == IF pat = "valid" THEN "ok" ELSE "error"

\* findProtectedPaths: NewProcessor, then FindWithOptions (filepath.Walk).
findProtectedPaths(pat, walk) ==
    IF NewProcessor(pat) = "error" THEN "error"
    ELSE IF walk = "walkerr" THEN "error"
    ELSE IF walk = "nomatch" THEN "empty"
    ELSE "some"

\* Variant: an error return that skips the deferred calls.
Return_NoDefer(p, s, r, next) ==
    /\ pc' = [pc EXCEPT ![p] = IF r = "error" THEN "returned" ELSE next]
    /\ failedStep' = [failedStep EXCEPT ![p] = s]
    /\ result' = [result EXCEPT ![p] = r]

\* Variant: the error of findProtectedPaths is recorded but not returned.
Return_IgnoreMatchError(p, s, r, next) ==
    /\ pc' = [pc EXCEPT ![p] = IF s = "match" /\ r = "error" THEN "check" ELSE next]
    /\ failedStep' = [failedStep EXCEPT ![p] = s]
    /\ result' = [result EXCEPT ![p] = r]

\* A step of ProtectPaths returned an error (or ProtectPaths returns nil
\* early): control goes to the deferred calls, at position next.
Return(p, s, r, next) ==
    /\ pc' = [pc EXCEPT ![p] = next]
    /\ failedStep' = [failedStep EXCEPT ![p] = s]
    /\ result' = [result EXCEPT ![p] = r]

\* protect.go:57-66
ProtectPaths_Find(p) ==
    /\ pc[p] = "locked"
    /\ \E pat \in PatternArg(p), walk \in WalkOutcomes :
         LET r == findProtectedPaths(pat, walk) IN
         /\ protPat' = [protPat EXCEPT ![p] = pat]
         /\ matched' = [matched EXCEPT ![p] = r]
         /\ trace' = Append1(trace, p, "match")
         /\ CASE r = "error" -> Return(p, "match", "error", "release")
              [] r = "empty" -> Return(p, "none", "nil", "release")
              [] r = "some"  -> /\ pc' = [pc EXCEPT ![p] = "check"]
                                /\ UNCHANGED <<failedStep, result>>
    /\ UNCHANGED <<lockVars, unmerged, stage, flagged, exitCode, logged, hookVars>>
    /\ UNCHANGED nonProcVars

LsFilesOutcomes == {"cmderr", "conflict", "clean"}

\* Variant: only a failure of the command is an error, its output is ignored.
CheckUnmergedEntries_IgnoreOutput(out) == IF out = "cmderr" THEN "error" ELSE "ok"

\* Operations.CheckUnmergedEntries: git ls-files -u -- <paths>; a command
\* failure or any output is an error.
CheckUnmergedEntries(out) == IF out = "clean" THEN "ok" ELSE "error"

\* protect.go:70-73
ProtectPaths_CheckUnmerged(p) ==
    /\ pc[p] = "check"
    /\ \E out \in LsFilesOutcomes :
         /\ unmerged' = [unmerged EXCEPT ![p] = out]
         /\ trace' = Append1(trace, p, "conflict_check")
         /\ IF CheckUnmergedEntries(out) = "ok"
            THEN /\ pc' = [pc EXCEPT ![p] = "snap_mkdir"]
                 /\ UNCHANGED <<failedStep, result>>
            ELSE Return(p, "conflict_check", "error", "release")
    /\ UNCHANGED <<lockVars, protPat, matched, stage, flagged, exitCode,
                   logged, hookVars>>
    /\ UNCHANGED nonProcVars

\* buildSnapshotFromHEAD: os.MkdirTemp("", stagePrefix).
BuildSnapshot_MkdirTemp(p) ==
    /\ pc[p] = "snap_mkdir"
    /\ trace' = Append1(trace, p, "snapshot")
    /\ \E ok \in BOOLEAN :
         IF ok
         THEN /\ stage' = [stage EXCEPT ![p] = TRUE]
              /\ pc' = [pc EXCEPT ![p] = "snap_git"]
              /\ UNCHANGED <<failedStep, result>>
         ELSE /\ Return(p, "snapshot", "error", "release")
              /\ UNCHANGED stage
    /\ UNCHANGED <<lockVars, protPat, matched, unmerged, flagged, exitCode,
                   logged, hookVars>>
    /\ UNCHANGED nonProcVars

\* The deferred closure of buildSnapshotFromHEAD tests the err variable
\* declared by "stageDir, err := os.MkdirTemp(...)".  The later failures
\* are bound by "if err := ...; err != nil", a new variable in the scope of
\* the if statement, so the variable the closure reads is still nil.
OuterErrSet(step) == FALSE

\* defer func() { if err != nil { os.RemoveAll(stageDir) } }()
DeferredSnapshotCleanup(exists, step) ==
    IF OuterErrSet(step) THEN FALSE ELSE exists

\* buildSnapshotFromHEAD: gitOps.BuildSnapshotFromHEAD (read-tree into a
\* temporary index, checkout-index into the staging directory).
BuildSnapshot_Git(p) ==
    /\ pc[p] = "snap_git"
    /\ \E ok \in BOOLEAN :
         IF ok
         THEN /\ pc' = [pc EXCEPT ![p] = "snap_chmod"]
              /\ UNCHANGED <<stage, failedStep, result>>
         ELSE /\ stage' = [stage EXCEPT ![p] = DeferredSnapshotCleanup(@, "git")]
              /\ Return(p, "snapshot", "error", "release")
    /\ UNCHANGED <<lockVars, protPat, matched, unmerged, trace, flagged,
                   exitCode, logged, hookVars>>
    /\ UNCHANGED nonProcVars

\* buildSnapshotFromHEAD: setPermissions(stageDir); on success ProtectPaths
\* registers defer os.RemoveAll(stageDir).
BuildSnapshot_SetPermissions(p) ==
    /\ pc[p] = "snap_chmod"
    /\ \E ok \in BOOLEAN :
         IF ok
         THEN /\ pc' = [pc EXCEPT ![p] = "mirror_find"]
              /\ UNCHANGED <<stage, failedStep, result>>
         ELSE /\ stage' = [stage EXCEPT ![p] = DeferredSnapshotCleanup(@, "chmod")]
              /\ Return(p, "snapshot", "error", "release")
    /\ UNCHANGED <<lockVars, protPat, matched, unmerged, trace, flagged,
                   exitCode, logged, hookVars>>
    /\ UNCHANGED nonProcVars

\* mirrorToWorkingTree: findGithookRsyncBinary.
Mirror_FindBinary(p) ==
    /\ pc[p] = "mirror_find"
    /\ trace' = Append1(trace, p, "sync")
    /\ \E found \in BOOLEAN :
         IF found
         THEN /\ pc' = [pc EXCEPT ![p] = "mirror_run"]
              /\ UNCHANGED <<failedStep, result>>
         ELSE Return(p, "sync", "error", "remove_stage")
    /\ UNCHANGED <<lockVars, protPat, matched, unmerged, stage, flagged,
                   exitCode, logged, hookVars>>
    /\ UNCHANGED nonProcVars

\* mirrorToWorkingTree: rsyncCmd.Run() of githook-rsync <stage>/ <root>.
Mirror_Run(p) ==
    /\ pc[p] = "mirror_run"
    /\ \E ok \in BOOLEAN :
         IF ok
         THEN /\ pc' = [pc EXCEPT ![p] = "skipwt"]
              /\ UNCHANGED <<failedStep, result>>
         ELSE Return(p, "sync", "error", "remove_stage")
    /\ UNCHANGED <<lockVars, protPat, matched, unmerged, stage, trace, flagged,
                   exitCode, logged, hookVars>>
    /\ UNCHANGED nonProcVars

\* applySkipWorktreeFlags: git ls-files -z | xargs git update-index
\* --skip-worktree; then ProtectPaths returns nil.
ProtectPaths_ApplySkipWorktree(p) ==
    /\ pc[p] = "skipwt"
    /\ trace' = Append1(trace, p, "skip_worktree")
    /\ \E ok \in BOOLEAN :
         /\ flagged' = [flagged EXCEPT ![p] = ok]
         /\ IF ok
            THEN Return(p, "none", "nil", "remove_stage")
            ELSE Return(p, "skip_worktree", "error", "remove_stage")
    /\ UNCHANGED <<lockVars, protPat, matched, unmerged, stage, exitCode,
                   logged, hookVars>>
    /\ UNCHANGED nonProcVars

\* defer os.RemoveAll(stageDir): runs first, it was registered last.
ProtectPaths_RemoveStage(p) ==
    /\ pc[p] = "remove_stage"
    /\ stage' = [stage EXCEPT ![p] = FALSE]
    /\ pc' = [pc EXCEPT ![p] = "release"]
    /\ UNCHANGED <<lockVars, protPat, matched, unmerged, trace, failedStep,
                   result, flagged, exitCode, logged, hookVars>>
    /\ UNCHANGED nonProcVars

\* Lock.Release, called by the deferred closure of ProtectPaths:
\* l.file.Close(); os.Remove(l.lockFile).  A failure of Remove is printed
\* as a warning and does not change the return value.
Release(p) ==
    /\ pc[p] = "release"
    /\ lockFile' = RemoveLockPath
    /\ holds' = [holds EXCEPT ![p] = FALSE]
    /\ trace' = Append1(trace, p, "release")
    /\ pc' = [pc EXCEPT ![p] = "returned"]
    /\ UNCHANGED <<readPid, sleeps, reclaimed, protPat, matched, unmerged, stage,
                   failedStep, result, flagged, exitCode, logged, hookVars>>
    /\ UNCHANGED nonProcVars

ProtectPaths(p) ==
    \/ acquireLock(p)
    \/ ProtectPaths_Find(p)
    \/ ProtectPaths_CheckUnmerged(p)
    \/ BuildSnapshot_MkdirTemp(p)
    \/ BuildSnapshot_Git(p)
    \/ BuildSnapshot_SetPermissions(p)
    \/ Mirror_FindBinary(p)
    \/ Mirror_Run(p)
    \/ ProtectPaths_ApplySkipWorktree(p)
    \/ ProtectPaths_RemoveStage(p)
    \/ Release(p)

\* ------------------------------------------------------------------------
\* main of the hook dispatcher (hook name in os.Args[1])
\* ------------------------------------------------------------------------

ProtectedHooks == {"post-checkout", "post-merge", "post-rewrite",
                   "post-applypatch", "post-commit", "post-reset"}

\* Every hook name the dispatcher may be started for; "pre-push" stands
\* for the hooks that are not in the list.
HookNames == ProtectedHooks \cup {"pre-push"}

\* The process ends from main: log.Printf if an error is reported, then
\* return (status 0) or log.Fatal (status 1).
Terminate(p, code, err) ==
    /\ pc' = [pc EXCEPT ![p] = "exited"]
    /\ exitCode' = [exitCode EXCEPT ![p] = code]
    /\ logged' = [logged EXCEPT ![p] = @ \/ err]

\* determineHookContext: os.Args[1] when present, else "unknown".
HookType == IF argc >= 2 THEN hook ELSE "unknown"

\* shouldProcessSparseCheckout
shouldProcessSparseCheckout(hookType) ==
    IF hookType # "post-checkout" THEN FALSE
    ELSE argc >= 4 /\ flag = "1"

\* shouldProcessProtectedPaths
shouldProcessProtectedPaths(hookType) == hookType \in ProtectedHooks

\* main: determineHookContext (os.Getwd may fail).
Main_DetermineHookContext(p) ==
    /\ pc[p] = "main_start"
    /\ IF env.cwd
       THEN /\ pc' = [pc EXCEPT ![p] = "main_parse"]
            /\ UNCHANGED <<exitCode, logged>>
       ELSE Terminate(p, 0, TRUE)
    /\ UNCHANGED <<lockVars, runVars, hookVars>>
    /\ UNCHANGED nonProcVars

\* workflowProcessor.ParseAllFiles() and the two pattern lists.
ParseAllFiles(p, next) ==
    IF env.parse
    THEN /\ protPat' = [protPat EXCEPT ![p] = env.prot]
         /\ pc' = [pc EXCEPT ![p] = next]
         /\ UNCHANGED <<exitCode, logged>>
    ELSE /\ Terminate(p, 0, TRUE)
         /\ UNCHANGED protPat

Main_ParseWorkflow(p) ==
    /\ pc[p] = "main_parse"
    /\ ParseAllFiles(p, "main_sparse")
    /\ UNCHANGED <<lockVars, matched, unmerged, stage, trace, failedStep,
                   result, flagged, hookVars>>
    /\ UNCHANGED nonProcVars

\* Variant: an error of the sparse-checkout action ends main.
AfterSparseCheckout_Fatal(ok, next) == IF ok THEN next ELSE "exited"

\* Where main goes on after the sparse-checkout action returned: its error
\* is logged and nothing else.
AfterSparseCheckout(ok, next) == next

\* Variant: the guard without the test for an empty pattern list.
SparseGuard_NoPatternTest == shouldProcessSparseCheckout(HookType)

\* The guard of the sparse-checkout action.
SparseGuard == shouldProcessSparseCheckout(HookType) /\ env.assign = "some"

\* main: sparse checkout; its error is logged and main goes on.
Main_SparseCheckout(p) ==
    /\ pc[p] = "main_sparse"
    /\ IF SparseGuard
       THEN /\ sparseRan' = TRUE
            /\ \E ok \in BOOLEAN :
                 /\ sparseErr' = ~ok
                 /\ logged' = [logged EXCEPT ![p] = @ \/ ~ok]
                 /\ pc' = [pc EXCEPT ![p] = AfterSparseCheckout(ok, "main_protect")]
       ELSE /\ pc' = [pc EXCEPT ![p] = "main_protect"]
            /\ UNCHANGED <<sparseRan, sparseErr, logged>>
    /\ UNCHANGED <<lockVars, runVars, exitCode, binary, hook, argc, flag,
                   env, protectRan>>
    /\ UNCHANGED nonProcVars

\* Variant: the guard without the test for an empty pattern list.
ProtectGuard_NoPatternTest(p) == shouldProcessProtectedPaths(HookType)

\* The guard of the protection action.
ProtectGuard(p) == shouldProcessProtectedPaths(HookType) /\ protPat[p] # "none"

\* main: protect.New(repositoryRoot).ProtectPaths(protectedPathsPattern).
Main_ProtectPaths(p) ==
    /\ pc[p] = "main_protect"
    /\ IF ProtectGuard(p)
       THEN /\ protectRan' = TRUE
            /\ pc' = [pc EXCEPT ![p] = "acq_gitdir"]
            /\ UNCHANGED <<exitCode, logged>>
       ELSE /\ Terminate(p, 0, FALSE)
            /\ UNCHANGED protectRan
    /\ UNCHANGED <<lockVars, runVars, binary, hook, argc, flag, env,
                   sparseRan, sparseErr>>
    /\ UNCHANGED nonProcVars

\* ProtectPaths returned: main logs its error, if any, and returns.
Exit(p) ==
    /\ pc[p] = "returned"
    /\ Terminate(p, 0, result[p] = "error")
    /\ UNCHANGED <<lockVars, runVars, hookVars>>
    /\ UNCHANGED nonProcVars

\* ------------------------------------------------------------------------
\* main of cmd/githook (installed as the post-checkout hook itself)
\* ------------------------------------------------------------------------

\* main: argument check, branch-checkout flag, os.Getwd.
GithookMain_Args(p) ==
    /\ pc[p] = "gh_start"
    /\ IF argc < 4
       THEN Terminate(p, 1, TRUE)
       ELSE IF flag # "1"
       THEN Terminate(p, 0, FALSE)
       ELSE IF env.cwd
       THEN /\ pc' = [pc EXCEPT ![p] = "gh_parse"]
            /\ UNCHANGED <<exitCode, logged>>
       ELSE Terminate(p, 0, TRUE)
    /\ UNCHANGED <<lockVars, runVars, hookVars>>
    /\ UNCHANGED nonProcVars

GithookMain_ParseWorkflow(p) ==
    /\ pc[p] = "gh_parse"
    /\ ParseAllFiles(p, "gh_sparse")
    /\ UNCHANGED <<lockVars, matched, unmerged, stage, trace, failedStep,
                   result, flagged, hookVars>>
    /\ UNCHANGED nonProcVars

\* main: checkoutProcessor.SparseCheckout(assignmentPattern).
GithookMain_SparseCheckout(p) ==
    /\ pc[p] = "gh_sparse"
    /\ IF env.assign = "some"
       THEN /\ sparseRan' = TRUE
            /\ \E ok \in BOOLEAN :
                 /\ sparseErr' = ~ok
                 /\ logged' = [logged EXCEPT ![p] = @ \/ ~ok]
                 /\ pc' = [pc EXCEPT ![p] = AfterSparseCheckout(ok, "gh_protect")]
       ELSE /\ pc' = [pc EXCEPT ![p] = "gh_protect"]
            /\ UNCHANGED <<sparseRan, sparseErr, logged>>
    /\ UNCHANGED <<lockVars, runVars, exitCode, binary, hook, argc, flag,
                   env, protectRan>>
    /\ UNCHANGED nonProcVars

\* main: checkoutProcessor.ProtectFolders(protectedFoldersPattern); its
\* error is logged and main returns.
GithookMain_ProtectFolders(p) ==
    /\ pc[p] = "gh_protect"
    /\ IF protPat[p] # "none"
       THEN /\ protectRan' = TRUE
            /\ \E ok \in BOOLEAN : Terminate(p, 0, ~ok)
       ELSE /\ Terminate(p, 0, FALSE)
            /\ UNCHANGED protectRan
    /\ UNCHANGED <<lockVars, runVars, binary, hook, argc, flag, env,
                   sparseRan, sparseErr>>
    /\ UNCHANGED nonProcVars

\* ------------------------------------------------------------------------
\* The privileged gateway: RsyncWrapper.SyncDirectory (package protect) and
\* Processor.UpdatePermissions (package permissions), run by the helper
\* binary githook-rsync; and its callers
\* ------------------------------------------------------------------------

Gateways == {"SyncDirectory", "UpdatePermissions"}

\* "none": the helper binary is started directly, with any two arguments.
Callers == {"none", "mirrorToWorkingTree", "ExecuteUpdatePermissions"}

SuffixLens == 7..MaxSuffixLen

\* The entries below the staging directory and below the destination: the
\* protected directory docs with a file, an executable and a file that only
\* the destination has, a file outside the protected directory, and a file
\* of the repository's .git.
Paths == {"docs", "docs/a", "docs/run", "docs/old", "src/c", ".git/config"}

\* --exclude=.git, --exclude=.git/, --exclude=.git/*
UnderGit(e) == e = ".git/config"

\* kind "symlink" is a symbolic link whose target lies outside the tree.
Entry(k, c, o, m) == [kind |-> k, content |-> c, owner |-> o, mode |-> m]
NoEntry == Entry("absent", "none", "none", "none")

HasExecuteBit(m) == m \in {"0755", "0700"}

\* What git checkout-index leaves below the staging directory under umask
\* 022 or 077: the directory, docs/a as a file, as a symbolic link or not at
\* all, the executable docs/run or not.
StageTree(umask, a, run) ==
    [e \in Paths |->
        IF e = "docs"
        THEN Entry("dir", "none", "real", IF umask = "022" THEN "0755" ELSE "0700")
        ELSE IF e = "docs/a" /\ a = "file"
        THEN Entry("file", "h", "real", IF umask = "022" THEN "0644" ELSE "0600")
        ELSE IF e = "docs/a" /\ a = "symlink"
        THEN Entry("symlink", "/etc/hosts", "real", "0777")
        ELSE IF e = "docs/run" /\ run
        THEN Entry("file", "h", "real", IF umask = "022" THEN "0755" ELSE "0700")
        ELSE NoEntry]

\* The staging directory when nothing was checked out.
EmptyStage == [e \in Paths |-> NoEntry]

StageTrees ==
    {StageTree(u, a, r) : u \in {"022", "077"}, a \in {"file", "symlink", "absent"},
                          r \in BOOLEAN}
    \cup {EmptyStage}

\* The working tree the mirror writes to: docs with an edited docs/a or
\* without it, with a file docs/old that HEAD does not have or without it,
\* src/c, and .git.
DestTree(a, old) ==
    [e \in Paths |->
        IF e = "docs" THEN Entry("dir", "none", "real", "0755")
        ELSE IF e = "docs/a" /\ a THEN Entry("file", "e", "real", "0644")
        ELSE IF e = "docs/old" /\ old THEN Entry("file", "h", "real", "0644")
        ELSE IF e = "src/c" THEN Entry("file", "h", "real", "0644")
        ELSE IF e = ".git/config" THEN Entry("file", "g", "real", "0644")
        ELSE NoEntry]

DestTrees == {DestTree(a, old) : a \in BOOLEAN, old \in BOOLEAN}

\* chmod u=rwX,go=rX on one entry: X gives execute permission to a
\* directory and to a file that has an execute bit.  A symbolic link keeps
\* its own mode.
ChmodSymbolic(x) ==
    IF x.kind = "dir" \/ (x.kind = "file" /\ HasExecuteBit(x.mode))
    THEN [x EXCEPT !.mode = "0755"]
    ELSE IF x.kind = "file" THEN [x EXCEPT !.mode = "0644"]
    ELSE x

\* chown majikmate:majikmate on one entry.
Chown(x) == IF x.kind \in {"dir", "file"} THEN [x EXCEPT !.owner = "majikmate"] ELSE x

\* The entries of the source that rsync transfers: --safe-links leaves out
\* a symbolic link that points outside the tree, the excludes leave out .git.
Transferred(s, e, safeLinks) ==
    /\ ~UnderGit(e)
    /\ s[e].kind # "absent"
    /\ ~(safeLinks /\ s[e].kind = "symlink")

\* rsync --archive --delete --no-owner --no-group --chown=... --safe-links
\* --exclude=.git <source>/ <dest>, run by user u: a transferred entry
\* replaces the entry of the destination, every other entry of the
\* destination outside .git is deleted.  The owner is remapped when rsync
\* runs as superuser and is the running user otherwise.
RsyncDelete(s, d, u) ==
    [e \in Paths |->
        IF UnderGit(e) THEN d[e]
        ELSE IF Transferred(s, e, TRUE)
        THEN [s[e] EXCEPT !.owner = IF u = "root" THEN "majikmate" ELSE u]
        ELSE NoEntry]

\* rsync --recursive --links --perms --times --group --owner --safe-links
\* --exclude=.git <source>/ <dest>/: without --delete an entry of the
\* destination that the source does not have stays.
RsyncKeep(s, d) ==
    [e \in Paths |->
        IF Transferred(s, e, TRUE) THEN s[e] ELSE d[e]]

\* The destinations a failing rsync may leave: some entries as they were,
\* some as the complete run leaves them.
PartialTrees(d, n) ==
    {[e \in Paths |-> IF e \in S THEN n[e] ELSE d[e]] : S \in SUBSET Paths}

\* The user the helper binary runs as: ExecuteUpdatePermissions starts it
\* with sudo, mirrorToWorkingTree and a direct call without.
HelperUser == IF caller = "ExecuteUpdatePermissions" THEN "root" ELSE "real"

\* The rsync of the helper.
HelperRsync ==
    IF helper = "SyncDirectory" THEN RsyncDelete(srcTree, dstTree, HelperUser)
    ELSE RsyncKeep(srcTree, dstTree)

\* A canonical source path (after filepath.Abs(filepath.Clean(source))):
\* root "tmp" is a path directly under /tmp/, name "stage" a name made of the
\* staging prefix and suffixLen characters of [a-zA-Z0-9], "stage_dash" the
\* prefix followed by a suffix with another character in it, "plain" any
\* other name; sub: the path has one more component below that directory.
SrcPath(r, n, l, s) == [root |-> r, name |-> n, suffixLen |-> l, sub |-> s]

SrcPaths ==
    {SrcPath(r, "stage", l, s) : r \in {"tmp", "other"}, l \in SuffixLens, s \in BOOLEAN}
    \cup {SrcPath(r, n, 0, s) : r \in {"tmp", "other"}, n \in {"plain", "stage_dash"},
                                s \in BOOLEAN}

\* The empty string given as an argument.
EmptyArg == SrcPath("other", "empty", 0, FALSE)

FileKinds == {"missing", "dir", "symlink", "file"}
Owners == {"real", "other"}

\* What is found at the source path: kind as os.Lstat reports it, owner as
\* os.Stat reports it.
Sources ==
    {[path |-> q, kind |-> k, owner |-> o] :
        q \in SrcPaths \cup {EmptyArg}, k \in FileKinds, o \in Owners}

\* The destination: root "workspaces" is a path under /workspaces/, "etc" a
\* path under one of the system directories, "home" any other place; git
\* "root": <dest>/.git exists, "inside": dest is a directory inside a working
\* tree without a .git of its own.
Destinations ==
    {[root |-> r, kind |-> k, git |-> g, parentOwner |-> o] :
        r \in {"workspaces", "etc", "home"}, k \in FileKinds,
        g \in {"none", "root", "inside"}, o \in Owners}

ValidSrc == [path |-> SrcPath("tmp", "stage", MaxSuffixLen, FALSE), kind |-> "dir",
             owner |-> "real"]
ValidDst == [root |-> "workspaces", kind |-> "dir", git |-> "root", parentOwner |-> "real"]

\* [a-zA-Z0-9]{10,} in package protect, {8,} in package permissions.
StageSuffixMin(h) == IF h = "SyncDirectory" THEN 10 ELSE 8

\* stagePattern.MatchString(path): ^/tmp/majikmate-protect-sync-stage-[a-zA-Z0-9]{n,}$
MatchStagePattern(h, q) ==
    /\ q.root = "tmp"
    /\ q.name = "stage"
    /\ q.suffixLen >= StageSuffixMin(h)
    /\ ~q.sub

\* filepath.Dir(path) of a path with a component below the directory.
Dir(q) == [q EXCEPT !.sub = FALSE]

\* The pattern test of validateSourcePath: package permissions also accepts
\* a path whose parent directory matches.
SourcePatternOk(h, q) ==
    IF h = "SyncDirectory"
    THEN MatchStagePattern(h, q)
    ELSE MatchStagePattern(h, q) \/ (q.sub /\ MatchStagePattern(h, Dir(q)))

\* validateSourcePath: pattern, os.Lstat, IsDir, symlink, validateOwnership.
validateSourcePath(h, s) ==
    IF ~SourcePatternOk(h, s.path) THEN "pattern"
    ELSE IF s.kind = "missing" THEN "access"
    ELSE IF s.kind # "dir" THEN "notdir"
    ELSE IF s.owner # "real" THEN "owner"
    ELSE "ok"

\* The repository test of validateDestinationPath: os.Stat(<dest>/.git) in
\* package protect, git rev-parse --git-dir run in dest in package permissions.
IsGitRepository(h, d) ==
    IF h = "SyncDirectory" THEN d.git = "root" ELSE d.git \in {"root", "inside"}

\* validateDestinationPath: os.Lstat, IsDir, symlink, repository, system
\* directories, /workspaces/, ownership of the parent directory.
validateDestinationPath(h, d) ==
    IF d.kind = "missing" THEN "access"
    ELSE IF d.kind # "dir" THEN "notdir"
    ELSE IF ~IsGitRepository(h, d) THEN "nogit"
    ELSE IF d.root = "etc" THEN "system"
    ELSE IF d.root # "workspaces" THEN "root"
    ELSE IF d.parentOwner # "real" THEN "owner"
    ELSE "ok"

\* The gateway call returns an error.
GatewayError(e) ==
    /\ gresult' = e
    /\ gpc' = "done"

\* if source == "" || dest == ""
Gateway_Args ==
    /\ gpc = "h_args"
    /\ IF src.path = EmptyArg
       THEN GatewayError("args")
       ELSE gpc' = "h_src" /\ UNCHANGED gresult
    /\ UNCHANGED <<caller, helper, src, dst, argSlash, callerSrcOk, callerDstOk,
                   srcOk, dstOk, chowned, chmodded, synced, invoked>>
    /\ UNCHANGED nonGateVars

\* Variant: the result of the source validation is recorded but not tested.
SourceVerdict_Ignored(r) == gpc' = "h_dst" /\ UNCHANGED gresult

\* if err := rw.validateSourcePath(sourceReal); err != nil { return ... }
SourceVerdict(r) ==
    IF r = "ok" THEN gpc' = "h_dst" /\ UNCHANGED gresult ELSE GatewayError("source")

Gateway_ValidateSource ==
    /\ gpc = "h_src"
    /\ srcOk' = validateSourcePath(helper, src)
    /\ SourceVerdict(srcOk')
    /\ UNCHANGED <<caller, helper, src, dst, argSlash, callerSrcOk, callerDstOk,
                   dstOk, chowned, chmodded, synced, invoked>>
    /\ UNCHANGED nonGateVars

Gateway_ValidateDestination ==
    /\ gpc = "h_dst"
    /\ dstOk' = validateDestinationPath(helper, dst)
    /\ IF dstOk' = "ok"
       THEN gpc' = "h_slash" /\ UNCHANGED gresult
       ELSE GatewayError("destination")
    /\ UNCHANGED <<caller, helper, src, dst, argSlash, callerSrcOk, callerDstOk,
                   srcOk, chowned, chmodded, synced, invoked>>
    /\ UNCHANGED nonGateVars

\* if !strings.HasSuffix(source, "/"), then the privileged operation.
Gateway_TrailingSlash ==
    /\ gpc = "h_slash"
    /\ IF ~argSlash
       THEN GatewayError("slash")
       ELSE /\ gpc' = IF helper = "SyncDirectory" THEN "h_rsync" ELSE "h_chown"
            /\ UNCHANGED gresult
    /\ UNCHANGED <<caller, helper, src, dst, argSlash, callerSrcOk, callerDstOk,
                   srcOk, dstOk, chowned, chmodded, synced, invoked>>
    /\ UNCHANGED nonGateVars

\* updatePermissions: find <source> -mindepth 1 -exec chown majikmate:majikmate.
\* A failing command may have changed some of the entries.
updatePermissions_Chown ==
    /\ gpc = "h_chown"
    /\ \E ok \in BOOLEAN :
         IF ok
         THEN /\ chowned' = TRUE
              /\ gpc' = "h_chmod"
              /\ UNCHANGED gresult
         ELSE /\ chowned' \in BOOLEAN
              /\ GatewayError("exec")
    /\ srcTree' = IF chowned' THEN [e \in Paths |-> Chown(srcTree[e])] ELSE srcTree
    /\ UNCHANGED <<caller, helper, src, dst, argSlash, callerSrcOk, callerDstOk,
                   srcOk, dstOk, chmodded, synced, invoked>>
    /\ UNCHANGED <<dstTree, warned>>
    /\ UNCHANGED nonGateTreeVars

\* updatePermissions: find <source> -mindepth 1 -exec chmod u=rwX,go=rX.
updatePermissions_Chmod ==
    /\ gpc = "h_chmod"
    /\ \E ok \in BOOLEAN :
         IF ok
         THEN /\ chmodded' = TRUE
              /\ gpc' = "h_rsync"
              /\ UNCHANGED gresult
         ELSE /\ chmodded' \in BOOLEAN
              /\ GatewayError("exec")
    /\ srcTree' = IF chmodded' THEN [e \in Paths |-> ChmodSymbolic(srcTree[e])] ELSE srcTree
    /\ UNCHANGED <<caller, helper, src, dst, argSlash, callerSrcOk, callerDstOk,
                   srcOk, dstOk, chowned, synced, invoked>>
    /\ UNCHANGED <<dstTree, warned>>
    /\ UNCHANGED nonGateTreeVars

\* executeRsync / the rsync of updatePermissions: cmd.Run().  A failing rsync
\* may have changed part of the destination.
executeRsync ==
    /\ gpc = "h_rsync"
    /\ \E ok \in BOOLEAN :
         IF ok
         THEN /\ synced' = "full"
              /\ dstTree' = HelperRsync
              /\ gresult' = "ok"
              /\ gpc' = "done"
         ELSE /\ dstTree' \in PartialTrees(dstTree, HelperRsync)
              /\ synced' \in (IF dstTree' = dstTree THEN {"none", "partial"}
                               ELSE {"partial"})
              /\ GatewayError("exec")
    /\ UNCHANGED <<caller, helper, src, dst, argSlash, callerSrcOk, callerDstOk,
                   srcOk, dstOk, chowned, chmodded, invoked>>
    /\ UNCHANGED <<srcTree, warned>>
    /\ UNCHANGED nonGateTreeVars

Gateway ==
    \/ Gateway_Args
    \/ Gateway_ValidateSource
    \/ Gateway_ValidateDestination
    \/ Gateway_TrailingSlash
    \/ updatePermissions_Chown
    \/ updatePermissions_Chmod
    \/ executeRsync

\* The caller returns an error without having started the helper.
CallerError ==
    /\ gpc' = "done"
    /\ UNCHANGED <<argSlash, invoked>>

\* exec.Command(<helper>, source, dest).Run(): the helper binary starts with
\* the two arguments.
InvokeHelper(slash) ==
    /\ invoked' = TRUE
    /\ argSlash' = slash
    /\ gpc' = "h_args"

\* Processor.mirrorToWorkingTree (package protect): findGithookRsyncBinary,
\* then the helper with stageDir + "/" and the cleaned repository root.  The
\* paths are not examined on this side.
MirrorToWorkingTree_Invoke ==
    /\ gpc = "c_start"
    /\ caller = "mirrorToWorkingTree"
    /\ \E found \in BOOLEAN :
         IF found THEN InvokeHelper(TRUE) ELSE CallerError
    /\ UNCHANGED <<caller, helper, src, dst, callerSrcOk, callerDstOk, srcOk, dstOk,
                   chowned, chmodded, synced, gresult>>
    /\ UNCHANGED nonGateVars

\* ExecuteUpdatePermissions: the argument test.
ExecuteUpdatePermissions_Args ==
    /\ gpc = "c_start"
    /\ caller = "ExecuteUpdatePermissions"
    /\ IF src.path = EmptyArg
       THEN CallerError
       ELSE gpc' = "c_src" /\ UNCHANGED <<argSlash, invoked>>
    /\ UNCHANGED <<caller, helper, src, dst, callerSrcOk, callerDstOk, srcOk, dstOk,
                   chowned, chmodded, synced, gresult>>
    /\ UNCHANGED nonGateVars

\* ExecuteUpdatePermissions: rw.validateSourcePath(stageDirReal).
ExecuteUpdatePermissions_ValidateSource ==
    /\ gpc = "c_src"
    /\ callerSrcOk' = validateSourcePath("UpdatePermissions", src)
    /\ IF callerSrcOk' = "ok"
       THEN gpc' = "c_dst" /\ UNCHANGED <<argSlash, invoked>>
       ELSE CallerError
    /\ UNCHANGED <<caller, helper, src, dst, callerDstOk, srcOk, dstOk,
                   chowned, chmodded, synced, gresult>>
    /\ UNCHANGED nonGateVars

\* ExecuteUpdatePermissions: rw.validateDestinationPath(repositoryRootReal),
\* then sudo <helper> stageDirReal repositoryRootReal.  stageDirReal is the
\* value of filepath.Abs, which is cleaned: it has no trailing slash.
ExecuteUpdatePermissions_ValidateDestination ==
    /\ gpc = "c_dst"
    /\ callerDstOk' = validateDestinationPath("UpdatePermissions", dst)
    /\ IF callerDstOk' = "ok"
       THEN InvokeHelper(FALSE)
       ELSE CallerError
    /\ UNCHANGED <<caller, helper, src, dst, callerSrcOk, srcOk, dstOk,
                   chowned, chmodded, synced, gresult>>
    /\ UNCHANGED nonGateVars

\* Values of the random number os.MkdirTemp appends to the prefix: the
\* least and the greatest value of every number of decimal digits (values
\* above 2^31 - 1 have ten digits as well).
RandomValues ==
    {0, 2147483647} \cup {10^k - 1 : k \in 1..9} \cup {10^k : k \in 1..9}

\* Number of characters of the decimal representation of n.
RECURSIVE DecimalLen(_)
DecimalLen(n) == IF n < 10 THEN 1 ELSE 1 + DecimalLen(n \div 10)

\* os.MkdirTemp("", stagePrefix) in buildSnapshotFromHEAD creates
\* <os.TempDir()>/majikmate-protect-sync-stage-<random number>, owned by the
\* user of the process; os.TempDir() is $TMPDIR, or /tmp when that is empty.
MkdirTemp_Name ==
    /\ gpc = "mkdirtemp"
    /\ \E t \in {"tmp", "other"}, r \in RandomValues :
         src' = [path |-> SrcPath(t, "stage", DecimalLen(r), FALSE), kind |-> "dir",
                 owner |-> "real"]
    /\ gpc' = "c_start"
    /\ UNCHANGED <<caller, helper, dst, argSlash, callerSrcOk, callerDstOk, srcOk, dstOk,
                   chowned, chmodded, synced, gresult, invoked>>
    /\ UNCHANGED nonGateVars

Caller ==
    \/ MirrorToWorkingTree_Invoke
    \/ ExecuteUpdatePermissions_Args
    \/ ExecuteUpdatePermissions_ValidateSource
    \/ ExecuteUpdatePermissions_ValidateDestination

\* The entries at and below the protected path docs.
UnderDocs(e) == e \in {"docs", "docs/a", "docs/run", "docs/old"}

\* chmod dirMode on a directory, chmod fileMode on everything else.
ChmodFixed(x) ==
    IF x.kind = "dir" THEN [x EXCEPT !.mode = "0755"]
    ELSE IF x.kind = "file" THEN [x EXCEPT !.mode = "0644"]
    ELSE x

\* syncPath(stageDir, "docs") of the Processor without gateway, first part:
\* a path the staging directory does not have is removed from the working
\* tree; otherwise rsync -a --delete --no-perms --no-owner --no-group
\* --chown=... <stage>/docs/ <root>/docs/.  With --no-perms an entry that
\* exists keeps its mode and a new one gets the mode of the source.  The
\* process runs as majikmate.
SyncPathRsync(s, d) ==
    [e \in Paths |->
        IF ~UnderDocs(e) THEN d[e]
        ELSE IF s["docs"].kind = "absent" \/ s[e].kind = "absent" THEN NoEntry
        ELSE [s[e] EXCEPT !.owner = "majikmate",
                          !.mode = IF d[e].kind = s[e].kind THEN d[e].mode ELSE @]]

\* setPermissions(<root>/docs): filepath.WalkDir with chmod on every entry.
SetPermissionsFixed(d) ==
    [e \in Paths |-> IF UnderDocs(e) THEN ChmodFixed(d[e]) ELSE d[e]]

\* mirrorToWorkingTree of the Processor without gateway: syncPath for the
\* protected path; an error of syncPath is printed as a warning and the
\* function returns nil.  This step is the removal or the rsync of syncPath.
MirrorToWorkingTree_SyncPath ==
    /\ gpc = "c_start"
    /\ caller = "syncPath"
    /\ \E ok \in BOOLEAN :
         IF ok
         THEN /\ dstTree' = SyncPathRsync(srcTree, dstTree)
              /\ gpc' = IF srcTree["docs"].kind = "absent" THEN "done" ELSE "c_chmod"
              /\ UNCHANGED warned
         ELSE /\ dstTree' \in PartialTrees(dstTree, SyncPathRsync(srcTree, dstTree))
              /\ warned' = TRUE
              /\ gpc' = "done"
    /\ UNCHANGED <<caller, helper, src, dst, argSlash, callerSrcOk, callerDstOk, srcOk,
                   dstOk, chowned, chmodded, synced, gresult, invoked>>
    /\ UNCHANGED srcTree
    /\ UNCHANGED nonGateTreeVars

\* return p.setPermissions(dstPath) at the end of syncPath.
MirrorToWorkingTree_SetPermissions ==
    /\ gpc = "c_chmod"
    /\ \E ok \in BOOLEAN :
         IF ok
         THEN /\ dstTree' = SetPermissionsFixed(dstTree)
              /\ UNCHANGED warned
         ELSE /\ dstTree' \in PartialTrees(dstTree, SetPermissionsFixed(dstTree))
              /\ warned' = TRUE
    /\ gpc' = "done"
    /\ UNCHANGED <<caller, helper, src, dst, argSlash, callerSrcOk, callerDstOk, srcOk,
                   dstOk, chowned, chmodded, synced, gresult, invoked>>
    /\ UNCHANGED srcTree
    /\ UNCHANGED nonGateTreeVars

\* What mirrorToWorkingTree returns to ProtectPaths when it has ended: the
\* error of the helper in package protect with gateway, nil otherwise.
MirrorReturn ==
    IF caller = "syncPath" THEN "nil"
    ELSE IF gresult = "ok" THEN "nil" ELSE "error"

\* ------------------------------------------------------------------------
\* One protection run on the contents of a repository: HEAD, .git/index,
\* working tree, temporary index and staging directory.  The run is the
\* body of ProtectPaths between acquireLock and Release, with the commands
\* of Operations.BuildSnapshotFromHEAD taken one at a time.
\* ------------------------------------------------------------------------

\* The tracked files of the repository; the configured pattern matches the
\* directory docs, src/c is outside every protected path.
Files == {"docs/a", "docs/b", "src/c"}
UnderProtected == {"docs/a", "docs/b"}

\* Contents: "h" committed in HEAD, "s" staged with git add, "e" edited in
\* the working tree.
Absent == "absent"

FileRec(c, o, m) == [content |-> c, owner |-> o, mode |-> m]
NoFileRec == FileRec(Absent, "none", "none")
IndexEntry(c, k) == [content |-> c, skip |-> k]

Heads ==
    {[f \in Files |-> IF f = "docs/a" THEN a ELSE IF f = "docs/b" THEN b ELSE "h"] :
        a \in {Absent, "h"}, b \in {Absent, "h"}}

Indexes ==
    {[f \in Files |-> IndexEntry(IF f = "docs/a" THEN a ELSE IF f = "docs/b" THEN b ELSE "h",
                                 FALSE)] :
        a \in {Absent, "h", "s"}, b \in {Absent, "h", "s"}}

WorkFile(c) == IF c = Absent THEN NoFileRec ELSE FileRec(c, "user", "0644")

WorkTrees ==
    {[f \in Files |-> WorkFile(IF f = "docs/a" THEN a ELSE IF f = "docs/b" THEN b ELSE c)] :
        a \in {Absent, "h", "e"}, b \in {Absent, "h", "e"}, c \in {"h", "e"}}

EmptyTree == [f \in Files |-> NoFileRec]
EmptyIndex == [f \in Files |-> Absent]

\* The run returns err from the named step (or nil).
SyncReturn(r) ==
    /\ sres' = r
    /\ spc' = "s_done"

\* findProtectedPaths: filepath.Walk over the working tree; the directory
\* docs is found when something exists below it.  Nothing matched: nil.
Sync_Find ==
    /\ spc = "s_find"
    /\ matchedDir' = (\E f \in UnderProtected : work[f].content # Absent)
    /\ IF matchedDir'
       THEN spc' = "s_check" /\ UNCHANGED sres
       ELSE SyncReturn("nil")
    /\ UNCHANGED <<runNo, head, index, work, tmpExists, tmpIndex, stageDir, stageFiles,
                   after1, extractedFrom, sudoUser, currentUser, indexLock, rsyncBinary, headBorn, ranAs>>
    /\ UNCHANGED nonRepoVars

\* checkUnmergedEntries: the index of this repository has no unmerged entry.
Sync_CheckUnmerged ==
    /\ spc = "s_check"
    /\ spc' = "s_mkdir"
    /\ UNCHANGED <<runNo, head, index, work, tmpExists, tmpIndex, stageDir, stageFiles,
                   matchedDir, sres, after1, extractedFrom, sudoUser, currentUser,
                   indexLock, rsyncBinary, headBorn, ranAs>>
    /\ UNCHANGED nonRepoVars

\* os.MkdirTemp("", stagePrefix): a directory of the user running the hook.
Sync_MkdirTemp ==
    /\ spc = "s_mkdir"
    /\ stageDir' = currentUser
    /\ stageFiles' = EmptyTree
    /\ spc' = "s_readtree"
    /\ UNCHANGED <<runNo, head, index, work, tmpExists, tmpIndex, matchedDir, sres,
                   after1, extractedFrom, sudoUser, currentUser, indexLock, rsyncBinary, headBorn, ranAs>>
    /\ UNCHANGED nonRepoVars

\* GIT_INDEX_FILE="$TMPIDX" git read-tree HEAD
ReadTreeHEAD == [f \in Files |-> head[f]]

\* Variant: no trap is set, the file made by mktemp stays.
TrapExit_None(exists) == exists

\* trap 'rm -f "$TMPIDX"' EXIT: whether the file made by mktemp exists once
\* the shell has ended, with whatever status.
TrapExit(exists) == FALSE

\* TMPIDX=$(mktemp) && trap ... && GIT_INDEX_FILE="$TMPIDX" git read-tree HEAD
\* On a branch without commits read-tree ends with "Not a valid object name
\* HEAD", the && list ends there and the shell exits.
Sync_ReadTree ==
    /\ spc = "s_readtree"
    /\ IF headBorn
       THEN /\ tmpExists' = TRUE
            /\ tmpIndex' = ReadTreeHEAD
            /\ spc' = "s_checkout"
            /\ UNCHANGED sres
       ELSE /\ tmpExists' = TrapExit(TRUE)
            /\ tmpIndex' = EmptyIndex
            /\ SyncReturn("snapshot")
    /\ UNCHANGED <<runNo, head, index, work, stageDir, stageFiles, matchedDir,
                   after1, extractedFrom, sudoUser, currentUser, indexLock, rsyncBinary,
                   headBorn, ranAs>>
    /\ UNCHANGED nonRepoVars

\* The index file a git command of the extraction pipeline works on.  In
\*   GIT_INDEX_FILE="$TMPIDX" git ls-files -z -- <paths> | xargs -0 -r git checkout-index ...
\* the assignment belongs to git ls-files alone; the git started by xargs
\* has no GIT_INDEX_FILE and uses .git/index.
EnvIndexFile(cmd) == IF cmd = "ls-files" THEN "temp" ELSE "real"

\* The content recorded for f in the index file a command works on.
IndexContent(cmd, f) ==
    IF EnvIndexFile(cmd) = "temp" THEN tmpIndex[f] ELSE index[f].content

\* git ls-files -z -- <paths>: the entries below the matched paths.
LsFiles(cmd) == {f \in UnderProtected : IndexContent(cmd, f) # Absent}

\* Variant: checkout-index without --ignore-skip-worktree-bits leaves out
\* the entries whose skip-worktree bit is set.
CheckedOut_HonourSkipWorktree(f) ==
    /\ IndexContent("checkout-index", f) # Absent
    /\ ~(EnvIndexFile("checkout-index") = "real" /\ index[f].skip)

\* git checkout-index --ignore-skip-worktree-bits --prefix=<stage>/ f writes
\* f when its index has an entry for it and fails otherwise.
CheckedOut(f) == IndexContent("checkout-index", f) # Absent

\* The extraction pipeline, and the trap that removes the temporary index.
\* The files come out with the mode the umask of the process leaves.
Sync_CheckoutIndex ==
    /\ spc = "s_checkout"
    /\ LET listed == LsFiles("ls-files")
           missing == {f \in listed : IndexContent("checkout-index", f) = Absent}
       IN  /\ \E m \in {"0644", "0664"} :
                stageFiles' = [f \in Files |->
                                 IF f \in listed /\ CheckedOut(f)
                                 THEN FileRec(IndexContent("checkout-index", f), stageDir, m)
                                 ELSE NoFileRec]
           /\ extractedFrom' = IF listed = {} THEN extractedFrom
                               ELSE EnvIndexFile("checkout-index")
           /\ IF missing = {}
              THEN spc' = "s_chmod" /\ UNCHANGED sres
              ELSE SyncReturn("snapshot")
    /\ tmpExists' = TrapExit(tmpExists)
    /\ tmpIndex' = EmptyIndex
    /\ UNCHANGED <<runNo, head, index, work, stageDir, matchedDir, after1, sudoUser,
                   currentUser, indexLock, rsyncBinary, headBorn, ranAs>>
    /\ UNCHANGED nonRepoVars

\* runCommandAsUser (package protect): the user the command is run as, or
\* "refused".  Without SUDO_USER the command runs directly as the current
\* user, who must not be root; with SUDO_USER it runs under sudo -u as that
\* user, who must not be root.
runCommandAsUser(sudo, current) ==
    IF sudo = ""
    THEN (IF current = "root" THEN "refused" ELSE current)
    ELSE (IF sudo = "root" THEN "refused" ELSE sudo)

\* chmod u=rwX,go=rX on a regular file without execute permission.
Normalize(m) == "0644"

\* setPermissions(stageDir): cd <stage> && chmod -R u=rwX,go=rX . run by
\* runCommandAsUser; chmod needs the owner of the files (or root).
Sync_SetPermissions ==
    /\ spc = "s_chmod"
    /\ LET as == runCommandAsUser(sudoUser, currentUser) IN
       IF as = "refused"
       THEN /\ SyncReturn("snapshot")
            /\ UNCHANGED <<stageFiles, ranAs>>
       ELSE /\ ranAs' = as
            /\ IF as = stageDir
               THEN /\ stageFiles' = [f \in Files |->
                                        IF stageFiles[f].content = Absent THEN NoFileRec
                                        ELSE [stageFiles[f] EXCEPT !.mode = Normalize(@)]]
                    /\ spc' = "s_mirror"
                    /\ UNCHANGED sres
               ELSE /\ SyncReturn("snapshot")
                    /\ UNCHANGED stageFiles
    /\ UNCHANGED <<runNo, head, index, work, tmpExists, tmpIndex, stageDir, matchedDir,
                   after1, extractedFrom, sudoUser, currentUser, indexLock, rsyncBinary, headBorn>>
    /\ UNCHANGED nonRepoVars

\* userutil.GetRealUser: SUDO_USER when set, else the current user.
GetRealUser(sudo, current) == IF sudo # "" THEN sudo ELSE current

\* rsync --archive --delete --chown=majikmate:majikmate --exclude=.git
\* <stage>/ <root>: every file of the stage replaces the file of that name,
\* every other file of the destination is deleted; the owner is remapped
\* when rsync runs as superuser and is the running user otherwise.
executeRsyncOn(staged, root, user) ==
    [f \in Files |->
        IF staged[f].content = Absent THEN NoFileRec
        ELSE FileRec(staged[f].content, IF root THEN "majikmate" ELSE user, staged[f].mode)]

\* mirrorToWorkingTree: findGithookRsyncBinary must find the helper binary,
\* which, started without sudo, runs as the
\* user of the hook process; NewRsyncWrapper refuses root as the real user,
\* validateSourcePath wants the stage owned by the real user.  On failure the
\* deferred os.RemoveAll(stageDir) of ProtectPaths still runs.
\* Variant: the error of mirrorToWorkingTree is not returned.
MirrorVerdict_Ignored(ok) == spc' = "s_skipwt" /\ UNCHANGED sres

\* if err := p.mirrorToWorkingTree(...); err != nil { return err }
MirrorVerdict(ok) ==
    IF ok THEN spc' = "s_skipwt" /\ UNCHANGED sres
    ELSE sres' = "sync" /\ spc' = "s_rmstage"

Sync_Mirror ==
    /\ spc = "s_mirror"
    /\ LET real == GetRealUser(sudoUser, currentUser) IN
       IF ~rsyncBinary \/ real = "root" \/ stageDir # real
       THEN /\ MirrorVerdict(FALSE)
            /\ UNCHANGED work
       ELSE /\ work' = executeRsyncOn(stageFiles, currentUser = "root", currentUser)
            /\ MirrorVerdict(TRUE)
    /\ UNCHANGED <<runNo, head, index, tmpExists, tmpIndex, stageDir, stageFiles,
                   matchedDir, after1, extractedFrom, sudoUser, currentUser, indexLock,
                   rsyncBinary, headBorn,
                   ranAs>>
    /\ UNCHANGED nonRepoVars

\* Operations.ApplySkipWorktreeFlags: git ls-files -z -- <paths> | xargs -0
\* -r git update-index --skip-worktree, both on .git/index.
\* git update-index writes .git/index under .git/index.lock and fails when
\* that file exists; xargs -r does not start it when nothing is listed.
Sync_SkipWorktree ==
    /\ spc = "s_skipwt"
    /\ IF indexLock /\ \E f \in UnderProtected : index[f].content # Absent
       THEN /\ sres' = "skipworktree"
            /\ UNCHANGED index
       ELSE /\ index' = [f \in Files |->
                           IF f \in UnderProtected /\ index[f].content # Absent
                           THEN [index[f] EXCEPT !.skip = TRUE]
                           ELSE index[f]]
            /\ sres' = "nil"
    /\ spc' = "s_rmstage"
    /\ UNCHANGED <<runNo, head, work, tmpExists, tmpIndex, stageDir, stageFiles,
                   matchedDir, after1, extractedFrom, sudoUser, currentUser, indexLock,
                   rsyncBinary, headBorn,
                   ranAs>>
    /\ UNCHANGED nonRepoVars

\* defer os.RemoveAll(stageDir)
Sync_RemoveStage ==
    /\ spc = "s_rmstage"
    /\ stageDir' = "none"
    /\ stageFiles' = EmptyTree
    /\ spc' = "s_done"
    /\ UNCHANGED <<runNo, head, index, work, tmpExists, tmpIndex, matchedDir, sres,
                   after1, extractedFrom, sudoUser, currentUser, indexLock, rsyncBinary, headBorn, ranAs>>
    /\ UNCHANGED nonRepoVars

\* The next hook firing: the sequence runs again on what the first run
\* left, with HEAD, patterns and environment unchanged.
Sync_Again ==
    /\ spc = "s_done"
    /\ runNo = 1
    /\ sres = "nil"
    /\ after1' = work
    /\ runNo' = 2
    /\ sres' = "pending"
    /\ matchedDir' = FALSE
    /\ ranAs' = "none"
    /\ extractedFrom' = "none"
    /\ spc' = "s_find"
    /\ UNCHANGED <<head, index, work, tmpExists, tmpIndex, stageDir, stageFiles,
                   sudoUser, currentUser, indexLock, rsyncBinary, headBorn>>
    /\ UNCHANGED nonRepoVars

SyncRun ==
    \/ Sync_Find
    \/ Sync_CheckUnmerged
    \/ Sync_MkdirTemp
    \/ Sync_ReadTree
    \/ Sync_CheckoutIndex
    \/ Sync_SetPermissions
    \/ Sync_Mirror
    \/ Sync_SkipWorktree
    \/ Sync_RemoveStage
    \/ Sync_Again

\* ------------------------------------------------------------------------
\* paths.Processor.FindWithOptions: the walk of the working tree
\* ------------------------------------------------------------------------

\* Longest list of compiled patterns handed to a FindWithOptions call.
MaxPatterns == 2

\* Bytes of the characters that occur in the names.
Dot == 46
Slash == 47

\* Names of the entries directly below the walk root, of the directories
\* among them that may have entries, and of the entries below those.
TopNames == {"a", "a-b", ".g"}
ParentNames == {"a", ".g"}
SubNames == {"x", ".h"}

\* Base names of the walk root: /repo, /.repo, and "." (an empty root).
RootNames == {"repo", ".repo", "."}

\* The bytes of a name.
NameBytes(n) ==
    CASE n = "a"     -> <<97>>
      [] n = "a-b"   -> <<97, 45, 98>>
      [] n = ".g"    -> <<Dot, 103>>
      [] n = "x"     -> <<120>>
      [] n = ".h"    -> <<Dot, 104>>
      [] n = "repo"  -> <<114>>
      [] n = ".repo" -> <<Dot, 114>>
      [] n = "."     -> <<Dot>>

\* An entry is the sequence of names from the walk root down to it; the
\* walk root itself is the empty sequence.
Entries ==
    {<<t>> : t \in TopNames} \cup {<<t, c>> : t \in ParentNames, c \in SubNames}

WalkRoot == <<>>

EntryKinds == {"none", "file", "dir"}

\* The working trees: an entry exists only in a directory.
Trees ==
    {t \in [Entries -> EntryKinds] :
        \A e \in Entries : (Len(e) = 2 /\ t[e] # "none") => t[<<e[1]>>] = "dir"}

FindOptions(f, d) == [files |-> f, dirs |-> d]

\* FindWithOptions "Set defaults": neither option set means both.
EffectiveOptions(o) ==
    IF ~o.files /\ ~o.dirs THEN FindOptions(TRUE, TRUE) ELSE o

\* filepath.ToSlash(filepath.Rel(rootDir, path)).
RelBytes(e) ==
    IF Len(e) = 1 THEN NameBytes(e[1])
    ELSE NameBytes(e[1]) \o <<Slash>> \o NameBytes(e[2])

\* path as filepath.Walk hands it to the callback: filepath.Join(rootDir,
\* names...); joining onto "." leaves the relative path.
PathBytes(root, e) ==
    IF root = "." THEN RelBytes(e)
    ELSE <<Slash>> \o NameBytes(root) \o <<Slash>> \o RelBytes(e)

\* The regular expressions: ^<lit> ("prefix"), ^<lit>$ ("exact") and <lit>
\* ("contains") for a literal byte string.
Regex(k, l) == [kind |-> k, lit |-> l]

\* ^a , ^\.g$ and x
Regexes ==
    {Regex("prefix", <<97>>), Regex("exact", <<Dot, 103>>), Regex("contains", <<120>>)}

\* regexp.MatchString
MatchString(re, b) ==
    LET n == Len(re.lit) IN
    CASE re.kind = "exact"    -> b = re.lit
      [] re.kind = "prefix"   -> Len(b) >= n /\ SubSeq(b, 1, n) = re.lit
      [] re.kind = "contains" -> \E i \in 1..Len(b) :
                                    i + n - 1 <= Len(b) /\ SubSeq(b, i, i + n - 1) = re.lit

\* The lists of compiled patterns a regex.Processor can hold: not empty
\* (paths.NewProcessor), no pattern twice.
PatternLists ==
    {l \in UNION {[1..n -> Regexes] : n \in 1..MaxPatterns} :
        \A i, j \in 1..Len(l) : l[i] = l[j] => i = j}

\* a < b for byte strings, as Go compares strings.
RECURSIVE LessBytes(_, _)
LessBytes(a, b) ==
    IF b = <<>> THEN FALSE
    ELSE IF a = <<>> THEN TRUE
    ELSE IF Head(a) # Head(b) THEN Head(a) < Head(b)
    ELSE LessBytes(Tail(a), Tail(b))

IsDir(e) == e = WalkRoot \/ tree[e] = "dir"

\* filepath.Base(path)
Base(e) == IF e = WalkRoot THEN rootName ELSE e[Len(e)]

\* strings.HasPrefix(baseName, ".")
HasDotPrefix(n) == Head(NameBytes(n)) = Dot

\* The callback's first test: a hidden base name, except on the walk root.
IsHiddenEntry(e) == HasDotPrefix(Base(e)) /\ e # WalkRoot

\* Variant: hidden directories are left out of the result but not pruned.
WalkFuncReturn_NoPrune(e) == "nil"

\* What the callback returns to filepath.Walk.
WalkFuncReturn(e) ==
    IF IsHiddenEntry(e) /\ IsDir(e) THEN "SkipDir" ELSE "nil"

\* The callback goes on to the pattern loop for e.
IsChecked(e) ==
    /\ ~IsHiddenEntry(e)
    /\ e # WalkRoot
    /\ ~(IsDir(e) /\ ~EffectiveOptions(opts).dirs)
    /\ ~(~IsDir(e) /\ ~EffectiveOptions(opts).files)

\* The pattern loop from pattern i on: the number of appends it makes for
\* e; the break ends it at the first match.
RECURSIVE MatchAppends(_, _)
MatchAppends(e, i) ==
    IF i > Len(pats) THEN 0
    ELSE IF MatchString(pats[i], RelBytes(e)) THEN 1
    ELSE MatchAppends(e, i + 1)

Repeat(e, n) == [i \in 1..n |-> e]

\* The entries of directory e that exist.
DirEntries(e) ==
    {c \in Entries : Len(c) = Len(e) + 1 /\ SubSeq(c, 1, Len(e)) = e /\ tree[c] # "none"}

\* filepath.Walk reads the names of a directory and visits them in the
\* order of sort.Strings.
RECURSIVE ReadDirNames(_)
ReadDirNames(S) ==
    IF S = {} THEN <<>>
    ELSE LET m == CHOOSE c \in S :
                    \A d \in S \ {c} : LessBytes(NameBytes(Base(c)), NameBytes(Base(d)))
         IN  <<m>> \o ReadDirNames(S \ {m})

\* less of sort.Slice: matchedPaths[i].absolutePath < matchedPaths[j].absolutePath
PathLess(e1, e2) == LessBytes(PathBytes(rootName, e1), PathBytes(rootName, e2))

RECURSIVE InsertSorted(_, _)
InsertSorted(e, q) ==
    IF q = <<>> THEN <<e>>
    ELSE IF PathLess(Head(q), e) THEN <<Head(q)>> \o InsertSorted(e, Tail(q))
    ELSE <<e>> \o q

\* Variant: the result in the order of the walk.
SortByPath_WalkOrder(q) == q

\* sort.Slice(matchedPaths, less)
RECURSIVE SortByPath(_)
SortByPath(q) ==
    IF q = <<>> THEN <<>> ELSE InsertSorted(Head(q), SortByPath(Tail(q)))

\* FindWithOptions up to the call of filepath.Walk(rootDir, ...).
Find_Start ==
    /\ fpc = "f_start"
    /\ todo' = <<WalkRoot>>
    /\ fpc' = "f_walk"
    /\ UNCHANGED <<tree, rootName, opts, pats, matchedPaths>>
    /\ UNCHANGED nonFindVars

\* filepath.Walk visits the next entry: the callback, then the entries of
\* a directory that was not skipped.
Find_Visit ==
    /\ fpc = "f_walk"
    /\ todo # <<>>
    /\ LET e == Head(todo) IN
         /\ matchedPaths' = matchedPaths \o
                Repeat(e, IF IsChecked(e) THEN MatchAppends(e, 1) ELSE 0)
         /\ todo' = (IF IsDir(e) /\ WalkFuncReturn(e) # "SkipDir"
                     THEN ReadDirNames(DirEntries(e)) ELSE <<>>) \o Tail(todo)
    /\ UNCHANGED <<fpc, tree, rootName, opts, pats>>
    /\ UNCHANGED nonFindVars

\* The walk is over: sort and return the Result.
Find_Sort ==
    /\ fpc = "f_walk"
    /\ todo = <<>>
    /\ matchedPaths' = SortByPath(matchedPaths)
    /\ fpc' = "f_done"
    /\ UNCHANGED <<tree, rootName, opts, pats, todo>>
    /\ UNCHANGED nonFindVars

FindWithOptions ==
    \/ Find_Start
    \/ Find_Visit
    \/ Find_Sort

\* ------------------------------------------------------------------------
\* regex.Processor: the pattern set and its compiled forms
\* ------------------------------------------------------------------------

\* Number of calls made on one regex.Processor.
MaxCalls == 4

\* A string is the sequence of its characters.
LF == "LF"
CR == "CR"
Space == " "

\* The characters strings.TrimSpace removes at both ends.
WhiteSpace == {Space, CR, LF}

\* Argument lists of Add: a, the empty string, b, an expression that does
\* not compile, a pattern twice, and patterns next to an empty string.
AddArgLists ==
    {<< <<"a">> >>, << <<>> >>, << <<"b">> >>, << <<"(">> >>,
     << <<"a">>, <<"a">> >>, << <<"b">>, <<"a">> >>, << <<>>, <<"b">> >>}

\* Arguments of AddNewlineSeparated: "", "a", "a\nb", " c \n\n b", "b\n a",
\* "\n", "  " and "a\r\n(".
NewlineInputs ==
    {<<>>, <<"a">>, <<"a", LF, "b">>,
     <<Space, "c", Space, LF, LF, Space, "b">>,
     <<"b", LF, Space, "a">>, <<LF>>, <<Space, Space>>,
     <<"a", CR, LF, "(">>}

Range(q) == {q[i] : i \in 1..Len(q)}

\* regexp.Compile: an unbalanced parenthesis is a syntax error.
regexpCompile(x) ==
    IF "(" \in Range(x) THEN [err |-> "syntax", re |-> <<>>] ELSE [err |-> "nil", re |-> x]

\* compile() returns an error: some pattern does not compile.
compileFails(ps) == \E i \in 1..Len(ps) : regexpCompile(ps[i]).err # "nil"

\* compile(): the compiled forms of all patterns.
compile(ps) == [i \in 1..Len(ps) |-> regexpCompile(ps[i])]

\* Variant: a pattern is added whenever it is not empty.
Admits_NoSeen(x, ps) == x # <<>>

\* if pattern != "" && !seen[pattern]
Admits(x, ps) == x # <<>> /\ x \notin Range(ps)

\* The loop of Add over its arguments; seen holds the patterns present and
\* those added on the way.
RECURSIVE AddLoop(_, _)
AddLoop(ps, args) ==
    IF args = <<>> THEN ps
    ELSE IF Admits(Head(args), ps) THEN AddLoop(Append(ps, Head(args)), Tail(args))
    ELSE AddLoop(ps, Tail(args))

\* Variant: adding a pattern leaves the dirty flag as it was.
DirtyAfterAdd_Kept(d, before, after) == d

\* p.dirty = true in the branch that appends.
DirtyAfterAdd(d, before, after) == d \/ after # before

\* strings.Split(s, "\n")
RECURSIVE SplitLines(_, _)
SplitLines(x, cur) ==
    IF x = <<>> THEN <<cur>>
    ELSE IF Head(x) = LF THEN <<cur>> \o SplitLines(Tail(x), <<>>)
    ELSE SplitLines(Tail(x), Append(cur, Head(x)))

RECURSIVE TrimLeft(_)
TrimLeft(x) ==
    IF x # <<>> /\ Head(x) \in WhiteSpace THEN TrimLeft(Tail(x)) ELSE x

RECURSIVE TrimRight(_)
TrimRight(x) ==
    IF x # <<>> /\ x[Len(x)] \in WhiteSpace THEN TrimRight(SubSeq(x, 1, Len(x) - 1)) ELSE x

\* strings.TrimSpace
TrimSpace(x) == TrimRight(TrimLeft(x))

\* The loop of parseNewlineSeparated over the parts.
RECURSIVE KeepTrimmed(_)
KeepTrimmed(parts) ==
    IF parts = <<>> THEN <<>>
    ELSE LET t == TrimSpace(Head(parts)) IN
         (IF t # <<>> THEN <<t>> ELSE <<>>) \o KeepTrimmed(Tail(parts))

parseNewlineSeparated(x) ==
    IF x = <<>> THEN <<>> ELSE KeepTrimmed(SplitLines(x, <<>>))

NoReturn == [err |-> "none", list |-> <<>>]

\* The state after p.Add(args...).
AddPatterns(args) ==
    /\ patterns' = AddLoop(patterns, args)
    /\ dirty' = DirtyAfterAdd(dirty, patterns, patterns')
    /\ offered' = offered \o args
    /\ cret' = NoReturn
    /\ pret' = "none"
    /\ calls' = calls + 1
    /\ UNCHANGED compiled

Pat_Add ==
    /\ calls < MaxCalls
    /\ \E args \in AddArgLists : AddPatterns(args)
    /\ UNCHANGED nonPatVars

Pat_AddNewlineSeparated ==
    /\ calls < MaxCalls
    /\ \E x \in NewlineInputs : AddPatterns(parseNewlineSeparated(x))
    /\ UNCHANGED nonPatVars

\* Variant: compile() keeps the forms it built before the pattern that failed.
RECURSIVE CompiledPrefix(_)
CompiledPrefix(ps) ==
    IF ps = <<>> \/ regexpCompile(Head(ps)).err # "nil" THEN <<>>
    ELSE <<regexpCompile(Head(ps))>> \o CompiledPrefix(Tail(ps))

CacheAfterError_Partial(cache, ps) == CompiledPrefix(ps)

\* compile() assigns p.compiled only after the loop: an error leaves it.
CacheAfterError(cache, ps) == cache

\* Compiled(): compile when dirty; an error leaves the cache and the flag.
Compiled ==
    IF dirty
    THEN IF compileFails(patterns)
         THEN /\ cret' = [err |-> "error", list |-> <<>>]
              /\ compiled' = CacheAfterError(compiled, patterns)
              /\ UNCHANGED dirty
         ELSE /\ compiled' = compile(patterns)
              /\ dirty' = FALSE
              /\ cret' = [err |-> "nil", list |-> compiled']
    ELSE /\ cret' = [err |-> "nil", list |-> compiled]
         /\ UNCHANGED <<compiled, dirty>>

Pat_Compiled ==
    /\ calls < MaxCalls
    /\ calls' = calls + 1
    /\ Compiled
    /\ pret' = "none"
    /\ UNCHANGED <<patterns, offered>>
    /\ UNCHANGED nonPatVars

\* paths.NewProcessor(root, p): refuses an empty pattern set and a set that
\* does not compile.
Pat_NewProcessor ==
    /\ calls < MaxCalls
    /\ calls' = calls + 1
    /\ IF Len(patterns) = 0
       THEN /\ pret' = "no path patterns provided"
            /\ cret' = NoReturn
            /\ UNCHANGED <<compiled, dirty>>
       ELSE /\ Compiled
            /\ pret' = IF cret'.err # "nil" THEN "failed to compile path patterns"
                       ELSE "processor"
    /\ UNCHANGED <<patterns, offered>>
    /\ UNCHANGED nonPatVars

PatternSet ==
    \/ Pat_Add
    \/ Pat_AddNewlineSeparated
    \/ Pat_Compiled
    \/ Pat_NewProcessor

\* ------------------------------------------------------------------------
\* Package userutil: who the program runs for
\* ------------------------------------------------------------------------

\* A user name is "" (empty) or a name; the output of a command is a
\* sequence of names and whitespace characters.
UserNames == {"", "user", "root"}

\* string(output) after strings.TrimSpace, as a user name.
TrimmedName(output) ==
    LET t == TrimSpace(output) IN IF t = <<>> THEN "" ELSE t[1]

\* user.Current(): an error ("err") or a user record with its Username.
\* whoami: whether the command ended without error, and what it printed.
UserEnv(o, u, l, w, s) ==
    [osUser |-> o, USER |-> u, LOGNAME |-> l, whoami |-> w, SUDO_USER |-> s]

WhoamiOutputs == {<<>>, <<LF>>, <<"user", LF>>, <<"root", LF>>, <<Space, "user", LF>>}

Whoami(ok, out) == [ok |-> ok, out |-> out]

WhoamiResults == {Whoami(FALSE, <<>>)} \cup {Whoami(TRUE, o) : o \in WhoamiOutputs}

UserEnvs ==
    {UserEnv(o, u, l, w, s) :
        o \in UserNames \cup {"err"}, u \in UserNames, l \in UserNames,
        w \in WhoamiResults, s \in UserNames}

UserResult(n, e) == [name |-> n, err |-> e]

\* Variant: LOGNAME is consulted before USER.
GetCurrentUser_LognameFirst(e) ==
    IF e.osUser # "err" /\ e.osUser # "" THEN e.osUser
    ELSE IF e.LOGNAME # "" THEN e.LOGNAME
    ELSE IF e.USER # "" THEN e.USER
    ELSE IF e.whoami.ok /\ TrimmedName(e.whoami.out) # "" THEN TrimmedName(e.whoami.out)
    ELSE "vscode"

\* GetCurrentUser: the name; the error it returns is always nil.
GetCurrentUser(e) ==
    IF e.osUser # "err" /\ e.osUser # "" THEN e.osUser
    ELSE IF e.USER # "" THEN e.USER
    ELSE IF e.LOGNAME # "" THEN e.LOGNAME
    ELSE IF e.whoami.ok /\ TrimmedName(e.whoami.out) # "" THEN TrimmedName(e.whoami.out)
    ELSE "vscode"

\* ValidateUser: the error it returns.
ValidateUser(username) ==
    IF username = "root" THEN "refusing to operate as root user" ELSE "nil"

\* GetValidatedCurrentUser and GetValidatedRealUser, after the name was
\* determined: "" and the error, or the name and nil.
Validated(username) ==
    IF ValidateUser(username) # "nil"
    THEN UserResult("", ValidateUser(username))
    ELSE UserResult(username, "nil")

User_GetCurrentUser ==
    /\ ucall = "none"
    /\ ucall' = "GetCurrentUser"
    /\ uret' = UserResult(GetCurrentUser(uenv), "nil")
    /\ UNCHANGED uenv
    /\ UNCHANGED nonUserVars

User_GetRealUser ==
    /\ ucall = "none"
    /\ ucall' = "GetRealUser"
    /\ uret' = UserResult(GetRealUser(uenv.SUDO_USER, GetCurrentUser(uenv)), "nil")
    /\ UNCHANGED uenv
    /\ UNCHANGED nonUserVars

User_GetValidatedCurrentUser ==
    /\ ucall = "none"
    /\ ucall' = "GetValidatedCurrentUser"
    /\ uret' = Validated(GetCurrentUser(uenv))
    /\ UNCHANGED uenv
    /\ UNCHANGED nonUserVars

User_GetValidatedRealUser ==
    /\ ucall = "none"
    /\ ucall' = "GetValidatedRealUser"
    /\ uret' = Validated(GetRealUser(uenv.SUDO_USER, GetCurrentUser(uenv)))
    /\ UNCHANGED uenv
    /\ UNCHANGED nonUserVars

UserCall ==
    \/ User_GetCurrentUser
    \/ User_GetRealUser
    \/ User_GetValidatedCurrentUser
    \/ User_GetValidatedRealUser

\* ------------------------------------------------------------------------
\* Specifications
\* ------------------------------------------------------------------------

\* What a hook process finds: os.Getwd works, the workflow files parse,
\* and the two pattern lists they configure.
Env(c, w, a, pr) == [cwd |-> c, parse |-> w, assign |-> a, prot |-> pr]

Envs == {Env(FALSE, TRUE, "none", "none")}
        \cup {Env(TRUE, w, a, pr) : w \in BOOLEAN, a \in {"none", "some"}, pr \in PatKinds}

InitRun ==
    /\ readPid = [p \in Procs |-> 0]
    /\ sleeps = [p \in Procs |-> 0]
    /\ holds = [p \in Procs |-> FALSE]
    /\ reclaimed = FALSE
    /\ protPat = [p \in Procs |-> "unset"]
    /\ matched = [p \in Procs |-> "unset"]
    /\ unmerged = [p \in Procs |-> "unset"]
    /\ stage = [p \in Procs |-> FALSE]
    /\ trace = [p \in Procs |-> <<>>]
    /\ failedStep = [p \in Procs |-> "none"]
    /\ result = [p \in Procs |-> "pending"]
    /\ flagged = [p \in Procs |-> FALSE]
    /\ logged = [p \in Procs |-> FALSE]
    /\ sparseRan = FALSE
    /\ protectRan = FALSE
    /\ sparseErr = FALSE

\* The repository state of a run that has not started.
InitRepoRun ==
    /\ runNo = 1
    /\ tmpExists = FALSE
    /\ tmpIndex = EmptyIndex
    /\ stageDir = "none"
    /\ stageFiles = EmptyTree
    /\ matchedDir = FALSE
    /\ sres = "pending"
    /\ after1 = EmptyTree
    /\ extractedFrom = "none"
    /\ ranAs = "none"

\* The contents of the repository are not looked at.
InitRepoIdle ==
    /\ spc = "idle"
    /\ head = [f \in Files |-> "h"]
    /\ index = [f \in Files |-> IndexEntry("h", FALSE)]
    /\ work = [f \in Files |-> WorkFile("h")]
    /\ sudoUser = ""
    /\ currentUser = "user"
    /\ indexLock = FALSE
    /\ rsyncBinary = TRUE
    /\ headBorn = TRUE
    /\ InitRepoRun

\* No FindWithOptions call is in progress.
InitFindIdle ==
    /\ fpc = "idle"
    /\ tree = [e \in Entries |-> "none"]
    /\ rootName = "repo"
    /\ opts = FindOptions(FALSE, FALSE)
    /\ pats = <<>>
    /\ todo = <<>>
    /\ matchedPaths = <<>>

\* A regex.Processor as New() returns it, with no call made.
InitPatNew ==
    /\ patterns = <<>>
    /\ compiled = <<>>
    /\ dirty = TRUE
    /\ cret = NoReturn
    /\ pret = "none"
    /\ offered = <<>>
    /\ calls = 0

\* No mirror is in progress: a staging directory and a working tree.
InitMirIdle ==
    /\ srcTree = StageTree("022", "file", TRUE)
    /\ dstTree = DestTree(TRUE, TRUE)
    /\ warned = FALSE

\* No function of package userutil was called.
InitUserIdle ==
    /\ uenv = UserEnv("user", "user", "user", Whoami(TRUE, <<"user", LF>>), "")
    /\ ucall = "none"
    /\ uret = UserResult("", "nil")

InitLibIdle == InitFindIdle /\ InitPatNew /\ InitMirIdle /\ InitUserIdle

\* Nothing has been validated or changed yet.
InitGateCall ==
    /\ callerSrcOk = "unset"
    /\ callerDstOk = "unset"
    /\ srcOk = "unset"
    /\ dstOk = "unset"
    /\ chowned = FALSE
    /\ chmodded = FALSE
    /\ synced = "none"
    /\ gresult = "pending"
    /\ invoked = FALSE

\* No gateway call is in progress.
InitGateIdle ==
    /\ gpc = "idle"
    /\ caller = "none"
    /\ helper = "SyncDirectory"
    /\ src = ValidSrc
    /\ dst = ValidDst
    /\ argSlash = TRUE
    /\ InitGateCall

\* No hook process is running.
InitProcIdle ==
    /\ InitRun
    /\ pc = [p \in Procs |-> "exited"]
    /\ exitCode = [p \in Procs |-> 0]
    /\ lockFile = NoFile
    /\ binary = "none"
    /\ hook = "none"
    /\ argc = 0
    /\ flag = "none"
    /\ env = Env(TRUE, TRUE, "none", "valid")

\* One gateway call, for every helper, caller and pair of arguments.
InitGate ==
    /\ InitProcIdle
    /\ InitRepoIdle
    /\ InitLibIdle
    /\ caller \in Callers
    /\ helper \in Gateways
    /\ src \in Sources
    /\ dst \in Destinations
    /\ argSlash \in (IF caller = "none" THEN BOOLEAN ELSE {FALSE})
    /\ gpc = (IF caller = "none" THEN "h_args" ELSE "c_start")
    /\ InitGateCall

NextGate == Caller \/ Gateway

SpecGate == InitGate /\ [][NextGate]_vars

\* One mirror of a staging directory into a working tree, by each of the
\* implementations, with arguments that pass the validations, for every
\* staging directory and working tree.
InitMirror ==
    /\ InitProcIdle
    /\ InitRepoIdle
    /\ InitFindIdle
    /\ InitPatNew
    /\ InitUserIdle
    /\ caller \in Callers \cup {"syncPath"}
    /\ helper \in (IF caller = "syncPath" THEN {"SyncDirectory"} ELSE Gateways)
    /\ src = ValidSrc
    /\ dst = ValidDst
    /\ argSlash \in (IF caller = "none" THEN BOOLEAN ELSE {FALSE})
    /\ gpc = (IF caller = "none" THEN "h_args" ELSE "c_start")
    /\ InitGateCall
    /\ srcTree \in StageTrees
    /\ dstTree \in DestTrees
    /\ warned = FALSE

NextMirror ==
    \/ NextGate
    \/ MirrorToWorkingTree_SyncPath
    \/ MirrorToWorkingTree_SetPermissions

\* A staging directory is created and handed to the gateway by each of the
\* callers, for each helper.
InitStage ==
    /\ InitProcIdle
    /\ InitRepoIdle
    /\ InitLibIdle
    /\ caller \in {"mirrorToWorkingTree", "ExecuteUpdatePermissions"}
    /\ helper \in Gateways
    /\ src = ValidSrc
    /\ dst = ValidDst
    /\ argSlash = FALSE
    /\ gpc = "mkdirtemp"
    /\ InitGateCall

NextStage == MkdirTemp_Name \/ NextGate

SpecStage == InitStage /\ [][NextStage]_vars

SpecMirror == InitMirror /\ [][NextMirror]_vars

\* The users a hook process may run as, and the SUDO_USER it may find.
Users == {"user", "root"}
SudoUsers == {"", "user", "root"}

\* A protection run, followed by a second one when the first succeeded, for
\* every HEAD, index and working tree of the three files and every user
\* environment.
InitSync ==
    /\ InitProcIdle
    /\ InitGateIdle
    /\ spc = "s_find"
    /\ head \in Heads
    /\ index \in Indexes
    /\ work \in WorkTrees
    /\ sudoUser \in SudoUsers
    /\ currentUser \in Users
    /\ indexLock \in BOOLEAN
    /\ rsyncBinary \in BOOLEAN
    /\ headBorn \in BOOLEAN
    /\ InitRepoRun
    /\ InitLibIdle

NextSync == SyncRun

SpecSync == InitSync /\ [][NextSync]_vars

\* Concurrent runs of ProtectPaths on one repository, one per process, all
\* started; the lock path is free or holds the lock of a run that died.
\* The callers stay alive after ProtectPaths has returned.
Init ==
    /\ InitRun
    /\ pc = [p \in Procs |-> "acq_gitdir"]
    /\ exitCode = [p \in Procs |-> -1]
    /\ lockFile \in {NoFile, StaleFile}
    /\ binary = "none"
    /\ hook = "none"
    /\ argc = 0
    /\ flag = "none"
    /\ env = Env(TRUE, TRUE, "none", "valid")
    /\ InitGateIdle
    /\ InitRepoIdle
    /\ InitLibIdle

Next == \E p \in Procs : ProtectPaths(p)

Spec == Init /\ [][Next]_vars

\* The lock files an acquirer may find at the lock path when it starts.
InitialLockFiles == {NoFile, StaleFile, ForeignFile, OtherUserFile, GarbledFile}

\* Concurrent runs on one repository handed a pattern set that does not
\* compile: each run is acquireLock, the failing findProtectedPaths and the
\* deferred Release.  The lock path is free or holds a lock file left by a
\* process outside the model.
InitLock ==
    /\ readPid = [p \in Procs |-> 0]
    /\ sleeps = [p \in Procs |-> 0]
    /\ holds = [p \in Procs |-> FALSE]
    /\ reclaimed = FALSE
    /\ protPat = [p \in Procs |-> "invalid"]
    /\ matched = [p \in Procs |-> "unset"]
    /\ unmerged = [p \in Procs |-> "unset"]
    /\ stage = [p \in Procs |-> FALSE]
    /\ trace = [p \in Procs |-> <<>>]
    /\ failedStep = [p \in Procs |-> "none"]
    /\ result = [p \in Procs |-> "pending"]
    /\ flagged = [p \in Procs |-> FALSE]
    /\ logged = [p \in Procs |-> FALSE]
    /\ sparseRan = FALSE
    /\ protectRan = FALSE
    /\ sparseErr = FALSE
    /\ pc = [p \in Procs |-> "acq_gitdir"]
    /\ exitCode = [p \in Procs |-> -1]
    /\ lockFile \in InitialLockFiles
    /\ binary = "none"
    /\ hook = "none"
    /\ argc = 0
    /\ flag = "none"
    /\ env = Env(TRUE, TRUE, "none", "valid")
    /\ InitGateIdle
    /\ InitRepoIdle
    /\ InitLibIdle

LockRun(p) ==
    \/ acquireLock(p)
    \/ ProtectPaths_Find(p)
    \/ Release(p)

NextLock == \E p \in Procs : LockRun(p)

\* Every process is scheduled until its run has returned.
FairLock == \A p \in Procs : WF_vars(LockRun(p))

SpecLock == InitLock /\ [][NextLock]_vars /\ FairLock

\* Calls of Add, AddNewlineSeparated and Compiled, in any order, on a
\* processor made by New().
InitPatterns ==
    /\ InitProcIdle
    /\ InitGateIdle
    /\ InitRepoIdle
    /\ InitFindIdle
    /\ InitPatNew
    /\ InitMirIdle
    /\ InitUserIdle

NextPatterns == PatternSet

SpecPatterns == InitPatterns /\ [][NextPatterns]_vars

\* One call of a function of package userutil in each environment.
InitUser ==
    /\ InitProcIdle
    /\ InitGateIdle
    /\ InitRepoIdle
    /\ InitFindIdle
    /\ InitPatNew
    /\ InitMirIdle
    /\ uenv \in UserEnvs
    /\ ucall = "none"
    /\ uret = UserResult("", "nil")

NextUser == UserCall

SpecUser == InitUser /\ [][NextUser]_vars

\* One FindWithOptions call, for every working tree over the entries, every
\* root name, option pair and pattern list.
InitFind ==
    /\ InitProcIdle
    /\ InitGateIdle
    /\ InitRepoIdle
    /\ InitPatNew
    /\ InitMirIdle
    /\ InitUserIdle
    /\ fpc = "f_start"
    /\ tree \in Trees
    /\ rootName \in RootNames
    /\ opts \in {FindOptions(f, d) : f \in BOOLEAN, d \in BOOLEAN}
    /\ pats \in PatternLists
    /\ todo = <<>>
    /\ matchedPaths = <<>>

NextFind == FindWithOptions

SpecFind == InitFind /\ [][NextFind]_vars

\* One hook process running main, for every binary, hook and argument
\* vector; the lock path is free, stale, or held by a live process.  The
\* cmd/githook binary is the post-checkout hook (its usage message), the
\* dispatcher is started for any hook.
InitHook ==
    /\ InitRun
    /\ binary \in {"dispatch", "cmd"}
    /\ hook \in (IF binary = "cmd" THEN {"post-checkout"} ELSE HookNames)
    /\ argc \in 1..4
    /\ flag \in (IF argc >= 4 THEN {"0", "1"} ELSE {"none"})
    /\ pc = [p \in Procs |-> IF p = HookProc
                             THEN (IF binary = "dispatch" THEN "main_start" ELSE "gh_start")
                             ELSE "exited"]
    /\ exitCode = [p \in Procs |-> IF p = HookProc THEN -1 ELSE 0]
    /\ lockFile \in {NoFile, StaleFile, ForeignFile}
    /\ env \in Envs
    /\ InitGateIdle
    /\ InitRepoIdle
    /\ InitLibIdle

Main(p) ==
    \/ Main_DetermineHookContext(p)
    \/ Main_ParseWorkflow(p)
    \/ Main_SparseCheckout(p)
    \/ Main_ProtectPaths(p)
    \/ ProtectPaths(p)
    \/ Exit(p)

GithookMain(p) ==
    \/ GithookMain_Args(p)
    \/ GithookMain_ParseWorkflow(p)
    \/ GithookMain_SparseCheckout(p)
    \/ GithookMain_ProtectFolders(p)

NextHook == Main(HookProc) \/ GithookMain(HookProc)

\* The process is scheduled until it ends.
SpecHook == InitHook /\ [][NextHook]_vars /\ WF_vars(NextHook)

\* ------------------------------------------------------------------------
\* Properties
\* ------------------------------------------------------------------------

Ended(p) == pc[p] \in {"returned", "exited"}

LockFailures == {"lock_gitdir", "lock_timeout", "lock_write"}

\* acquireLock returned a Lock to p.
Acquired(p) == trace[p] # <<>> /\ failedStep[p] \notin LockFailures

InTrace(p, s) == \E i \in 1..Len(trace[p]) : trace[p][i] = s

\* p is inside mirrorToWorkingTree.
InMirror(p) == pc[p] \in {"mirror_find", "mirror_run"}

\* C1: two concurrent runs are never both between a successful acquireLock
\* and their Release, and never both inside mirrorToWorkingTree.
MutualExclusion ==
    \A p, q \in Procs :
       p # q => /\ ~(holds[p] /\ holds[q])
                /\ ~(InMirror(p) /\ InMirror(q))

\* C2: when acquireLock returns an error, ProtectPaths returns that error
\* and no step after the lock acquisition is executed in that run.
NoRunWithoutLock ==
    \A p \in Procs :
       failedStep[p] \in LockFailures =>
          /\ result[p] = "error"
          /\ Ended(p)
          /\ trace[p] = <<"lock">>
          /\ ~holds[p] /\ ~stage[p] /\ ~flagged[p]
          /\ matched[p] = "unset" /\ unmerged[p] = "unset"

LockTimedOut == \E p \in Procs : failedStep[p] = "lock_timeout" /\ Ended(p)

\* C3: a run that acquired the lock has executed Release when ProtectPaths
\* has returned, and the lock file it created no longer exists.
UnconditionalRelease ==
    \A p \in Procs :
       (Ended(p) /\ Acquired(p)) =>
          /\ trace[p][Len(trace[p])] = "release"
          /\ ~holds[p]
          /\ ~(lockFile.exists /\ lockFile.creator = p)

ReleasedAfterFailure ==
    \E p \in Procs : Ended(p) /\ Acquired(p) /\ failedStep[p] = "sync"

\* C4: a process that finds a stale lock file deletes it and retries at once
\* without sleeping, and, when no live process holds the lock, goes on to
\* return a Lock instead of timing out (unless the write of its pid fails).
StaleLockRecovery ==
    /\ [][\A p \in Procs :
            (pc[p] = "acq_remove" /\ pc'[p] # pc[p]) =>
               /\ pc'[p] = "acq_open"
               /\ ~lockFile'.exists
               /\ sleeps'[p] = sleeps[p]]_vars
    /\ (lockFile = StaleFile /\ pc[HookProc] = "acq_open")
          ~> (holds[HookProc] \/ failedStep[HookProc] = "lock_write")

ReclaimedAndLocked ==
    holds[HookProc] /\ reclaimed /\ sleeps[HookProc] = 0

\* C5: when git ls-files -u reports an entry under the protected paths,
\* ProtectPaths returns an error, no staging directory is created, no sync
\* is invoked and no skip-worktree bit is set in that run.
ConflictGate ==
    \A p \in Procs :
       unmerged[p] = "conflict" =>
          /\ result[p] = "error"
          /\ failedStep[p] = "conflict_check"
          /\ ~stage[p] /\ ~flagged[p]
          /\ ~InTrace(p, "snapshot")
          /\ ~InTrace(p, "sync")
          /\ ~InTrace(p, "skip_worktree")

ConflictRunEnded == \E p \in Procs : unmerged[p] = "conflict" /\ Ended(p)

StepOrderSeq == <<"lock", "match", "conflict_check", "snapshot", "sync",
                  "skip_worktree">>

\* The orchestrator step whose error failedStep records.
StepOf(f) == IF f \in LockFailures THEN "lock" ELSE f

\* The steps of a run without the final release.
Body(t) == IF t # <<>> /\ t[Len(t)] = "release" THEN SubSeq(t, 1, Len(t) - 1) ELSE t

\* C6: the steps of a run occur in the order lock, match, conflict check,
\* snapshot, sync, skip-worktree, release; a step is called only when the
\* previous one succeeded, and after a failing step nothing but the lock
\* release follows.
StepOrder ==
    \A p \in Procs :
       LET t == trace[p]
           b == Body(t)
       IN  /\ Len(b) <= Len(StepOrderSeq)
           /\ \A i \in 1..Len(b) : b[i] = StepOrderSeq[i]
           /\ failedStep[p] # "none" =>
                 /\ b # <<>>
                 /\ b[Len(b)] = StepOf(failedStep[p])
                 /\ pc[p] \in {"remove_stage", "release", "returned", "exited"}
           /\ (t # <<>> /\ t[Len(t)] = "release") =>
                 /\ Len(b) >= 2
                 /\ Ended(p)

FullRunEnded ==
    \E p \in Procs :
       /\ Ended(p)
       /\ trace[p] = StepOrderSeq \o <<"release">>
       /\ result[p] = "nil"

\* The protection action applies to the hook process: the dispatcher is
\* running, found its context and configuration, and the hook is one of
\* the protected hooks.
ProtectionApplies ==
    /\ binary = "dispatch"
    /\ env.cwd /\ env.parse
    /\ shouldProcessProtectedPaths(HookType)

\* C7 as stated: with no patterns configured, or with patterns that match
\* no path, the run goes from matching straight to lock release and its
\* result is nil.
BenignShortCircuitAsStated ==
    (/\ pc[HookProc] = "exited"
     /\ ProtectionApplies
     /\ env.prot = "none" \/ matched[HookProc] = "empty")
    => /\ trace[HookProc] = <<"lock", "match", "release">>
       /\ result[HookProc] = "nil"

\* C7, amended: with patterns that match no path the run goes from matching
\* straight to lock release, calls no later step and returns nil; with no
\* patterns configured main does not call ProtectPaths at all: no lock is
\* taken, nothing is matched and the process ends with status 0.
BenignShortCircuit ==
    /\ matched[HookProc] = "empty" =>
          /\ result[HookProc] = "nil"
          /\ failedStep[HookProc] = "none"
          /\ trace[HookProc] \in {<<"lock", "match">>, <<"lock", "match", "release">>}
          /\ pc[HookProc] \in {"release", "returned", "exited"}
          /\ ~stage[HookProc] /\ ~flagged[HookProc]
          /\ unmerged[HookProc] = "unset"
    /\ (pc[HookProc] = "exited" /\ ProtectionApplies /\ env.prot = "none") =>
          /\ ~protectRan
          /\ trace[HookProc] = <<>>
          /\ result[HookProc] = "pending"
          /\ exitCode[HookProc] = 0

NoMatchRunEnded ==
    /\ pc[HookProc] = "exited"
    /\ matched[HookProc] = "empty"
    /\ trace[HookProc] = <<"lock", "match", "release">>

\* C8: every staging directory created by a run is removed by the time the
\* run ends, whatever its outcome.
SnapshotLifetime == \A p \in Procs : Ended(p) => ~stage[p]

\* C9: the hook process never ends abnormally or with a non-zero status,
\* and a failure it met is in the log.
NonFatalHooks ==
    \A p \in Procs :
       /\ exitCode[p] \in {-1, 0}
       /\ pc[p] # "panicked"
       /\ (pc[p] = "exited" /\ result[p] = "error") => logged[p]

\* The hook was started with the arguments git passes to it.
CompleteInvocation == IF hook = "post-checkout" THEN argc >= 4 ELSE argc >= 2

\* C10: with both pattern lists configured, the sparse-checkout action runs
\* exactly for post-checkout with flag 1, and the protection action runs
\* exactly for the six protected hooks (post-checkout with either flag).
DispatchTable ==
    (/\ pc[HookProc] = "exited"
     /\ CompleteInvocation
     /\ env.cwd /\ env.parse
     /\ env.assign = "some" /\ env.prot # "none")
    => /\ sparseRan <=> (hook = "post-checkout" /\ flag = "1")
       /\ protectRan <=> (hook \in ProtectedHooks)

\* The hook process gets as far as the two actions: it found its working
\* directory and parsed the workflow files (cmd/githook: and was started
\* for a branch checkout).
ReachesActions ==
    /\ env.cwd /\ env.parse
    /\ binary = "cmd" => (argc >= 4 /\ flag = "1")

\* The hook is one for which the sparse-checkout action is meant.
SparseHookApplies ==
    binary = "cmd" \/ (argc >= 4 /\ hook = "post-checkout" /\ flag = "1")

\* The hook is one for which the protection action is meant.
ProtectHookApplies ==
    binary = "cmd" \/ (argc >= 2 /\ hook \in ProtectedHooks)

\* C11: with an empty assignment pattern list the sparse-checkout action is
\* not invoked; with an empty protected-paths list the protection action is
\* not invoked and no lock is taken; whether an action runs depends on its
\* own list only, not on the other one.
EmptyConfigDisables ==
    /\ env.assign = "none" => ~sparseRan
    /\ env.prot = "none" =>
          /\ ~protectRan
          /\ trace[HookProc] = <<>>
          /\ ~holds[HookProc]
          /\ ~(lockFile.exists /\ lockFile.creator = HookProc)
    /\ pc[HookProc] = "exited" /\ exitCode[HookProc] = 0 =>
          /\ sparseRan <=> (ReachesActions /\ SparseHookApplies /\ env.assign = "some")
          /\ protectRan <=> (ReachesActions /\ ProtectHookApplies /\ env.prot # "none")

OnlyProtectionConfigured ==
    /\ pc[HookProc] = "exited"
    /\ SparseHookApplies /\ ProtectHookApplies
    /\ env.assign = "none" /\ env.prot = "valid"
    /\ protectRan /\ ~sparseRan

\* The helper has started or finished its privileged operation.
PrivilegeExercised ==
    \/ gpc \in {"h_chown", "h_chmod", "h_rsync"}
    \/ chowned \/ chmodded \/ synced # "none"
    \/ gresult \in {"ok", "exec"}

\* C12: the privileged chown/chmod/rsync of a gateway call executes only
\* after validateSourcePath and validateDestinationPath of that call both
\* returned success; when either fails the call returns an error and has
\* changed no ownership, permission or content.
ValidationPrecedesPrivilege ==
    /\ PrivilegeExercised => (srcOk = "ok" /\ dstOk = "ok")
    /\ (srcOk \notin {"unset", "ok"} \/ dstOk \notin {"unset", "ok"}) =>
          /\ gpc = "done"
          /\ gresult \in {"source", "destination"}
          /\ ~chowned /\ ~chmodded /\ synced = "none"

DestinationRejected ==
    /\ gpc = "done"
    /\ srcOk = "ok"
    /\ dstOk = "owner"
    /\ gresult = "destination"
    /\ ~PrivilegeExercised

\* (a): the source path is not /tmp/<staging prefix><random suffix>.
SourceOutsidePattern(s) ==
    ~(s.path.root = "tmp" /\ s.path.name = "stage" /\ ~s.path.sub)

\* (b): the source is a symlink, not a directory, or not owned by the real user.
SourceNotOwnDirectory(s) == s.kind # "dir" \/ s.owner # "real"

\* (c): the destination is not under /workspaces/, is under a system
\* directory, or has no .git.
DestinationOutsideRoot(d) == d.root # "workspaces" \/ d.git # "root"

\* (d): the parent directory of the destination belongs to another user.
DestinationParentForeign(d) == d.parentOwner # "real"

\* C13: a call whose arguments fall under one of (a)-(d) gets a validation
\* error; a call passes both validations only when none of (a)-(d) holds.
ValidationRejects ==
    (srcOk = "ok" /\ dstOk = "ok") =>
       /\ ~SourceOutsidePattern(src)
       /\ ~SourceNotOwnDirectory(src)
       /\ ~DestinationOutsideRoot(dst)
       /\ ~DestinationParentForeign(dst)

\* C14: the helper performs the sync only after its own validation of both
\* paths, and a caller starts the helper only after its own validation of
\* both paths.
TwoLayerValidation ==
    /\ PrivilegeExercised => (srcOk = "ok" /\ dstOk = "ok")
    /\ invoked => (callerSrcOk = "ok" /\ callerDstOk = "ok")

\* The snapshot has been extracted and is still in the staging directory.
SnapshotBuilt == spc \in {"s_chmod", "s_mirror", "s_skipwt"}

\* C15: for every protected path present in HEAD, the content placed in the
\* staging directory equals the HEAD content of that path, whatever is in
\* the working tree or staged in the index.
ExactHeadExtraction ==
    SnapshotBuilt =>
        \A f \in UnderProtected :
            head[f] # Absent => stageFiles[f].content = head[f]

\* A step of buildSnapshotFromHEAD.
BuildSnapshotStep == spc \in {"s_mkdir", "s_readtree", "s_checkout", "s_chmod"}

\* buildSnapshotFromHEAD leaves .git/index and the working tree as they were.
SnapshotFrame == BuildSnapshotStep => (index' = index /\ work' = work)

\* git checkout-index has read no other index than the temporary one.
ExtractionFromTemporaryIndex == extractedFrom \in {"none", "temp"}

\* C16: the extraction reads its entries from the temporary index, not from
\* .git/index, and buildSnapshotFromHEAD changes neither .git/index nor the
\* working tree.
IndexIsolation == [](ExtractionFromTemporaryIndex) /\ [][SnapshotFrame]_vars

\* The second of two successive runs has returned.
SecondRunDone == runNo = 2 /\ spc = "s_done"

RunSucceeded == spc = "s_done" /\ sres = "nil" /\ matchedDir

\* C18: after a run that returns success every tracked file under the matched
\* protected path has its HEAD content in the working tree, is owned by
\* majikmate and has its skip-worktree bit set.
SuccessfulRunPostcondition ==
    RunSucceeded =>
        \A f \in UnderProtected :
            head[f] # Absent =>
                /\ work[f].content = head[f]
                /\ work[f].owner = "majikmate"
                /\ index[f].skip

\* C19: a command is run as the original user only when SUDO_USER is set and
\* names a non-root user; without it, or with root, the operation fails and
\* the run does not get past it.
OriginalUserGuard ==
    /\ ranAs # "none" => sudoUser \notin {"", "root"}
    /\ sudoUser \in {"", "root"} => spc \notin {"s_mirror", "s_skipwt", "s_rmstage"}

\* C20: at most one staging directory of the repository exists at a time.
AtMostOneSnapshot == Cardinality({p \in Procs : stage[p]}) <= 1

\* The lock file comes into existence only by the create-only open of a
\* process at the loop head, empty, at a path where no file was.
ExclusiveCreate ==
    (~lockFile.exists /\ lockFile'.exists) =>
        \E p \in Procs :
            /\ pc[p] = "acq_open"
            /\ pc'[p] = "acq_write"
            /\ lockFile' = File(p, 0)

\* The lock file exists and records the pid of every run that holds a Lock.
HolderRecorded ==
    \A p \in Procs : holds[p] => (lockFile.exists /\ lockFile.content = p)

\* C21: the lock file is created by an exclusive create-only open and then
\* gets the pid of its creator; while a run holds the Lock that acquireLock
\* returned, the lock file exists and records the pid of that run.
LockContent == [][ExclusiveCreate]_vars /\ [](HolderRecorded)

\* The process whose step this is.
Acts(p) == pc'[p] # pc[p]

\* Process p decides that the lock it read is stale.
DecidesStale(p) == pc[p] = "acq_probe" /\ pc'[p] = "acq_remove"

\* C22: an acquirer deletes an existing lock file only after it found the
\* recorded process dead; a pid that cannot be read or parsed, or a probe
\* that fails for another reason than a missing process, leaves the lock
\* in place.
ConservativeReclamation ==
    [][\A p \in Procs :
          /\ DecidesStale(p) => Signal0(readPid[p]) = "esrch"
          /\ (pc[p] = "acq_read" /\ Acts(p) /\ readLockPID \in {"enoent", "badpid"}) =>
                (pc'[p] = "acq_sleep" /\ lockFile' = lockFile)]_vars

\* The file at the lock path is deleted or replaced.
LockFileGone ==
    lockFile.exists /\ ~(lockFile'.exists /\ lockFile'.creator = lockFile.creator)

\* C23: the lock file of a process that is alive and has not released it is
\* deleted by no other process, neither as stale nor by Release.
LockOwnership ==
    [][(LockFileGone /\ ProcessExists(lockFile.creator)) =>
          (lockFile.creator \in Procs /\ Acts(lockFile.creator))]_vars

\* C24: an acquirer that finds the lock file empty, between the create and
\* the write of the pid by another process, does not crash: it sleeps and
\* tries again.
HalfWrittenLock ==
    [][\A p \in Procs :
          (pc[p] = "acq_read" /\ Acts(p) /\ lockFile.exists /\ lockFile.content = 0) =>
              pc'[p] = "acq_sleep"]_vars

\* C26: after a failed write of the pid, acquireLock has returned an error
\* without a Lock and no lock file created by that process remains.
FailedWriteLeavesNoLock ==
    \A p \in Procs :
        failedStep[p] = "lock_write" =>
            /\ ~(lockFile.exists /\ lockFile.creator = p)
            /\ ~holds[p]
            /\ result[p] = "error"

\* A run whose write of the pid failed has returned.
WriteFailedReturned ==
    \E p \in Procs : failedStep[p] = "lock_write" /\ pc[p] = "returned"

\* The positions of a process inside acquireLock.
AcquireSteps ==
    {"acq_gitdir", "acq_open", "acq_write", "acq_write_failed", "acq_read",
     "acq_probe", "acq_remove", "acq_sleep"}

InAcquireLock(p) == pc[p] \in AcquireSteps

NoHiddenSegment(e) == \A k \in 1..Len(e) : ~HasDotPrefix(e[k])

KindIncluded(e) ==
    LET both == ~opts.files /\ ~opts.dirs IN
    IF tree[e] = "dir" THEN opts.dirs \/ both ELSE opts.files \/ both

\* The entries that are not hidden, are of an included kind and whose
\* relative path matches some pattern.
MatchingEntries ==
    {e \in Entries :
        /\ tree[e] # "none"
        /\ NoHiddenSegment(e)
        /\ KindIncluded(e)
        /\ \E r \in Range(pats) : MatchString(r, RelBytes(e))}

\* C28: Find returns exactly the non-hidden entries of an included kind
\* whose relative path matches at least one pattern, each once, in
\* ascending order of their paths.
DeterministicMatchResult ==
    fpc = "f_done" =>
        /\ Range(matchedPaths) = MatchingEntries
        /\ Len(matchedPaths) = Cardinality(MatchingEntries)
        /\ \A i, j \in 1..Len(matchedPaths) :
              i < j => PathLess(matchedPaths[i], matchedPaths[j])

\* A result in which the walk order is not the sorted order (a/x is visited
\* before a-b and sorts after it) and an entry is matched by two patterns.
SortedAndMatchedTwice ==
    /\ fpc = "f_done"
    /\ {<<"a">>, <<"a-b">>, <<"a", "x">>} \subseteq Range(matchedPaths)
    /\ \E e \in Range(matchedPaths) :
          Cardinality({i \in 1..Len(pats) : MatchString(pats[i], RelBytes(e))}) >= 2

\* The arguments of the Add that this step performs.
AddedArgs == SubSeq(offered', Len(offered) + 1, Len(offered'))

\* A step that is a call of Add or AddNewlineSeparated.
IsAddStep == calls' # calls /\ cret' = NoReturn

\* C29: a successful Compiled() returns one compiled form per pattern, the
\* i-th being the compilation of the i-th pattern; an Add that brings a new
\* pattern leaves the cache marked for recompilation, and an Add of only
\* empty or known patterns changes neither the patterns nor the cache.
CacheCoherence ==
    /\ [](cret.err = "nil" =>
            /\ Len(cret.list) = Len(patterns)
            /\ \A i \in 1..Len(patterns) :
                  cret.list[i] = [err |-> "nil", re |-> patterns[i]])
    /\ [][IsAddStep =>
            IF \E a \in Range(AddedArgs) : a # <<>> /\ a \notin Range(patterns)
            THEN dirty' /\ patterns' # patterns
            ELSE UNCHANGED <<patterns, compiled, dirty>>]_vars

\* Compiled() succeeded as the last of the calls, on two patterns that came
\* in more than two additions.
CompiledAfterAdds ==
    /\ calls = MaxCalls
    /\ cret.err = "nil"
    /\ Len(cret.list) = 2
    /\ Len(offered) >= 3

\* Index of the first occurrence of x in q.
FirstIndex(x, q) == CHOOSE i \in 1..Len(q) : q[i] = x /\ \A k \in 1..(i - 1) : q[k] # x

\* Where the lines of x start: at 1 and after every newline.
LineStarts(x) == {1} \cup {i + 1 : i \in {k \in 1..Len(x) : x[k] = LF}}

\* One past the last character of the line that starts at s.
LineEnd(x, s) ==
    CHOOSE j \in s..(Len(x) + 1) :
        /\ j = Len(x) + 1 \/ x[j] = LF
        /\ \A k \in s..(j - 1) : x[k] # LF

\* Positions of the characters of the line at s that are not white space.
Solid(x, s) == {i \in s..(LineEnd(x, s) - 1) : x[i] \notin WhiteSpace}

Least(S) == CHOOSE i \in S : \A k \in S : i <= k
Greatest(S) == CHOOSE i \in S : \A k \in S : k <= i

\* r is x split on newlines, every line without its surrounding white space,
\* blank lines dropped.
IsTrimmedLines(x, r) ==
    LET nonBlank == {s \in LineStarts(x) : Solid(x, s) # {}}
        nth(k) == CHOOSE s \in nonBlank : Cardinality({t \in nonBlank : t < s}) = k - 1
    IN /\ Len(r) = Cardinality(nonBlank)
       /\ \A k \in 1..Len(r) :
             r[k] = SubSeq(x, Least(Solid(x, nth(k))), Greatest(Solid(x, nth(k))))

\* C30: the pattern list holds no empty string and no duplicate, and lists
\* the distinct non-empty patterns offered so far in the order of their first
\* addition; what AddNewlineSeparated offers is its argument split on
\* newlines, trimmed, without the blank lines.
DeduplicationAndOrder ==
    /\ \A i \in 1..Len(patterns) : patterns[i] # <<>>
    /\ \A i, j \in 1..Len(patterns) : i # j => patterns[i] # patterns[j]
    /\ Range(patterns) = Range(offered) \ {<<>>}
    /\ \A i, j \in 1..Len(patterns) :
          i < j => FirstIndex(patterns[i], offered) < FirstIndex(patterns[j], offered)
    /\ \A x \in NewlineInputs : IsTrimmedLines(x, parseNewlineSeparated(x))

\* A pattern was offered twice and an empty string was offered; the pattern
\* that only a newline-separated input with blank lines brings is there.
DuplicateAndBlankOffered ==
    /\ <<>> \in Range(offered)
    /\ \E i, j \in 1..Len(offered) : i < j /\ offered[i] = offered[j] /\ offered[i] # <<>>
    /\ <<"c">> \in Range(patterns)
    /\ Len(patterns) >= 2

\* A step in which Compiled() ran, called directly or by paths.NewProcessor.
IsCompiledStep == calls' # calls /\ cret' # NoReturn

\* C31: when some pattern of the set does not compile, Compiled() returns an
\* error and no list, leaves the cached list as it was and the set marked for
\* compilation, so that a set with such a pattern is always marked and every
\* later Compiled() fails too; paths.NewProcessor returns no matcher for it.
CompileFailureIsTotal ==
    /\ [][(IsCompiledStep /\ compileFails(patterns)) =>
            /\ cret' = [err |-> "error", list |-> <<>>]
            /\ compiled' = compiled
            /\ dirty']_vars
    /\ [](compileFails(patterns) => dirty)
    /\ [](pret = "processor" => (patterns # <<>> /\ ~compileFails(patterns)))
    /\ [][(calls' # calls /\ pret' # "none" /\ compileFails(patterns)) =>
            pret' = "failed to compile path patterns"]_vars

\* paths.NewProcessor was refused for a set that does not compile, while the
\* cache still holds the forms of an earlier, successful compilation.
RefusedWithOldCache ==
    /\ pret = "failed to compile path patterns"
    /\ cret.err = "error"
    /\ compiled # <<>>
    /\ Len(compiled) < Len(patterns)
    /\ dirty

\* Every entry of the staging directory is in the destination with the same
\* content.
StagedEntriesCopied ==
    \A e \in Paths :
        srcTree[e].kind # "absent" =>
            (dstTree[e].kind = srcTree[e].kind /\ dstTree[e].content = srcTree[e].content)

\* Every entry of the destination outside .git is an entry of the staging
\* directory.
ExtraneousDeleted ==
    \A e \in Paths :
        (~UnderGit(e) /\ srcTree[e].kind = "absent") => dstTree[e].kind = "absent"

\* C32: after a successful sync by the gateway every entry of the staging
\* directory is in the destination with the same content, the destination
\* has no entry outside .git that the staging directory lacks, and no step
\* changes an entry under .git.
MirrorSemantics ==
    /\ [](synced = "full" => (StagedEntriesCopied /\ ExtraneousDeleted))
    /\ [][\A e \in Paths : UnderGit(e) => dstTree'[e] = dstTree[e]]_vars

\* C33: a protection run changes no working-tree entry outside the matched
\* protected paths: src/c keeps content, owner and mode in every step.
ProtectionRunFrame ==
    [][\A f \in Files \ UnderProtected : work'[f] = work[f]]_vars

\* A step sets a skip-worktree bit.
SetsSkipWorktree == \E f \in Files : index'[f].skip /\ ~index[f].skip

\* C37: a skip-worktree bit is set only by the step that follows the
\* successful mirror of the same run, with the staged content in the working
\* tree; from the mirror to the end of the run the working tree is not
\* changed, so that a run whose flag step failed returns that error with the
\* mirrored content in place and the staging directory removed.
SkipWorktreeOrdering ==
    /\ [][SetsSkipWorktree =>
            /\ spc = "s_skipwt"
            /\ \A f \in Files : work[f].content = stageFiles[f].content]_vars
    /\ [][(spc \in {"s_skipwt", "s_rmstage"}) => (work' = work)]_vars
    /\ []((spc = "s_done" /\ sres = "skipworktree") =>
            /\ stageDir = "none"
            /\ \A f \in Files : ~index[f].skip)

\* A run whose mirror changed the working tree ended with the error of the
\* flag step.
FlagStepFailedAfterMirror ==
    /\ spc = "s_done"
    /\ sres = "skipworktree"
    /\ runNo = 1
    /\ \E f \in UnderProtected : work[f].content = "s"

\* C34: the name of every staging directory that os.MkdirTemp creates passes
\* the pattern test of validateSourcePath, on the side of the caller and in
\* the helper.
StagingNamesValidate == srcOk # "pattern" /\ callerSrcOk # "pattern"

\* The mode the normalization has to give an entry that had mode m.
NormalizedMode(x) ==
    IF x.kind = "dir" \/ HasExecuteBit(x.mode) THEN "0755" ELSE "0644"

\* t1 is t0 with the modes of its directories and files normalized.
IsNormalized(t0, t1, S) ==
    \A e \in S : t0[e].kind \in {"dir", "file"} => t1[e].mode = NormalizedMode(t0[e])

\* C35: a normalization of permissions, by the chmod of updatePermissions in
\* the staging directory or by setPermissions in the working tree, leaves
\* every directory with 0755, every file that had an execute bit with 0755
\* and every other file with 0644.
PermissionNormalization ==
    [][/\ (gpc = "h_chmod" /\ chmodded') => IsNormalized(srcTree, srcTree', Paths)
       /\ (gpc = "c_chmod" /\ ~warned') =>
             IsNormalized(dstTree, dstTree', {e \in Paths : UnderDocs(e)})]_vars

\* C36: when mirrorToWorkingTree has returned nil to ProtectPaths, which then
\* goes on to the skip-worktree flags and reports success, the sync of no
\* protected path has failed: the one operation of the gateway ran to its
\* end, or every path was synced.
AllOrNothingSync ==
    (gpc = "done" /\ caller # "none" /\ MirrorReturn = "nil") =>
        /\ ~warned
        /\ caller # "syncPath" => synced = "full"

\* ---------------------------------------------------------------------
\* C38: the temporary index file of the snapshot extraction exists only
\* while the extraction command runs: once the command has ended, with
\* read-tree, ls-files or checkout-index succeeding or failing, the file is
\* gone, in every later step of the run and after it.
TemporaryIndexCleanup == (spc # "s_checkout") => ~tmpExists

\* checkout-index failed on a filled temporary index, and the file is gone.
ExtractionFailedIndexGone ==
    /\ spc = "s_done"
    /\ sres = "snapshot"
    /\ headBorn
    /\ ~tmpExists

\* ---------------------------------------------------------------------
\* C39: when both actions apply (a post-checkout hook for a branch
\* checkout, both pattern lists non-empty), sparse checkout is attempted
\* before the protection action; an error of sparse checkout is logged and
\* the protection action is still invoked after it; when the workflow
\* files fail to parse neither action is invoked.
BothActionsApply ==
    /\ hook = "post-checkout" /\ argc >= 4 /\ flag = "1"
    /\ env.cwd
    /\ env.assign = "some" /\ env.prot # "none"

RECURSIVE FirstNonEmpty(_)
FirstNonEmpty(names) ==
    IF Len(names) = 1 \/ Head(names) # "" THEN Head(names)
    ELSE FirstNonEmpty(Tail(names))

\* The name a command printed: what is left of its output without the
\* whitespace around it.
PrintedName(output) ==
    LET words == {output[i] : i \in 1..Len(output)} \ {LF, CR, Space}
    IN  IF words = {} THEN "" ELSE CHOOSE w \in words : TRUE

FallbackChain(e) ==
    FirstNonEmpty(<<IF e.osUser = "err" THEN "" ELSE e.osUser,
                    e.USER,
                    e.LOGNAME,
                    IF e.whoami.ok THEN PrintedName(e.whoami.out) ELSE "",
                    "vscode">>)

ResolvedFor(call) ==
    IF call \in {"GetRealUser", "GetValidatedRealUser"} /\ uenv.SUDO_USER # ""
    THEN uenv.SUDO_USER
    ELSE FallbackChain(uenv)

RealUserResolution ==
    /\ ucall \in {"GetRealUser", "GetCurrentUser"} =>
          uret = UserResult(ResolvedFor(ucall), "nil")
    /\ ucall \in {"GetValidatedRealUser", "GetValidatedCurrentUser"} =>
          /\ (uret.err # "nil") <=> (ResolvedFor(ucall) = "root")
          /\ (uret.err # "nil") => (uret.name = "")
          /\ (uret.err = "nil") => (uret.name = ResolvedFor(ucall))

\* root found by whoami, the last source before the default, is refused.
RootFromWhoamiRefused ==
    /\ ucall = "GetValidatedRealUser"
    /\ uenv.SUDO_USER = "" /\ uenv.osUser = "err"
    /\ uenv.USER = "" /\ uenv.LOGNAME = ""
    /\ uenv.whoami = Whoami(TRUE, <<"root", LF>>)
    /\ uret = UserResult("", "refusing to operate as root user")

====
